---- MODULE Spec2Model ----
(***************************************************************************)
(* The withdrawal lifecycle of base-org/withdrawer: one run of the tool     *)
(* classifies a withdrawal from L1/L2 chain state, then proves or finalizes *)
(* it and polls for the receipt of the transaction it submitted.            *)
(*                                                                          *)
(* The chain (output oracle, dispute games, portal records, L1 clock, the   *)
(* mining of submitted transactions) is the environment; the run's steps    *)
(* are the calls of processWithdrawal / main, one action per call.          *)
(***************************************************************************)
EXTENDS Integers, Sequences, FiniteSets, TLC

\* ---------------------------------------------------------------- bounds
MaxTime == 4            \* L1 head times range up to MaxTime
MaxPeriod == 2          \* finalization periods range over 1..MaxPeriod
MaxGames == 2           \* dispute games created in the factory
MaxDeadline == 12       \* deadlines drawn for a stand-alone confirmation wait
MaxNonce == 2           \* runs start while the pending nonce is below MaxNonce
MaxL2BlockTime == 2     \* L2 block times range over 1..MaxL2BlockTime (seconds)

\* ------------------------------------------------------ program constants
PollInterval == 5           \* time.After(5 * time.Second)
ConfirmationTimeout == 300  \* context.WithTimeout(ctx, 5*time.Minute), seconds

\* A wait under a context without a deadline is followed up to this time.
WaitHorizon == ConfirmationTimeout + PollInterval

\* ------------------------------------------------------------ the withdrawal
\* The withdrawal transaction sits in L2 block WithdrawalBlock; L2 block n
\* carries timestamp L2BlockTime(n).
WithdrawalBlock == 1
L2BlockTime(n) == n
WithdrawalTime == L2BlockTime(WithdrawalBlock)
\* Anchors cover L2 blocks 0..MaxBlock: below, at and above the withdrawal's.
MaxBlock == WithdrawalBlock + 1

\* Submission intervals of the oracle, in L2 blocks: some short ones and
\* the 1800 blocks of Base mainnet.
SubmissionIntervals == {1, 30, 120, 1800}

\* The hash of the L2 withdrawal transaction the tool is given.
L2TxHash == "l2TxHash"
\* withdrawals.WithdrawalHash(ParseMessagePassed(receipt)): the hash of the
\* message fields of the event in the receipt of the L2 transaction, a
\* 32-byte value other than the transaction's hash.
WithdrawalHash(txHash) == IF txHash = L2TxHash THEN "withdrawalHash" ELSE "otherHash"

Submitters == {"S1", "S2"}
NoTime == -1

VARIABLES
    \* chain state
    variant,              \* "legacy" | "fp": the network's protocol variant
    period,               \* FINALIZATION_PERIOD_SECONDS / proof maturity delay
    l2Receipt,            \* receipt of the L2 withdrawal tx: "success" | "failed" | "notfound"
    l1Time,               \* timestamp of the L1 head
    oracleLatest,         \* L2OutputOracle.latestBlockNumber()
    games,                \* DisputeGameFactory: sequence of [l2Block, status]
    provenLegacy,         \* OptimismPortal.provenWithdrawals[withdrawalHash]
    provenFP,             \* OptimismPortal2.provenWithdrawals[withdrawalHash][submitter]
    finalizedWithdrawals, \* set of hashes h with finalizedWithdrawals[h] = true
    \* one run of the tool
    pc,                   \* position of the run
    from,                 \* Opts.From, the signer's address
    proofTime,            \* the proof timestamp the run read
    tx,                   \* the L1 transaction the run submitted, and the L1 head time then
    txStatus,             \* receipt of tx: "none" | "pending" | "success" | "failed"
    result,               \* how the run (or the wait) ended
    \* WaitForConfirmation
    clock,                \* seconds since the wait's context was created
    deadline,             \* deadline of ctx (NoTime: none)
    cancelled,            \* ctx was cancelled by the caller
    minedAt,              \* clock time at which the receipt became available
    lastPoll,             \* what the last receipt lookup returned
    notFound,             \* consecutive "not found" lookups so far
    \* main, from the command line to the withdrawal helper
    flags,                \* the parsed command-line flags
    n,                    \* the network struct main works with
    mainPc,               \* position of main
    crit,                 \* message of the log.Crit main exited with ("none": none)
    dialed,               \* RPC endpoints dialed so far
    helper,               \* the WithdrawHelper created
    \* two runs of the tool under one signing address
    accountNonce,         \* nonce of the address in the latest L1 state
    pool,                 \* its transactions pending at the L1 node
    proofRecord,          \* the Proof Record's timestamp is non-zero
    runPc,                \* position of each run
    runOpts,              \* each run's Opts.Nonce
    runProofTime,         \* the proof timestamp each run read is non-zero
    runTx,                \* the transaction each run submitted
    runResult,            \* how each run ended
    \* the legacy provability check and its error
    submissionInterval,   \* L2OutputOracle.SUBMISSION_INTERVAL(), in L2 blocks
    l2BlockTime,          \* L2OutputOracle.L2_BLOCK_TIME(), in seconds
    err                   \* the error CheckIfProvable returned

chainVars == <<variant, period, l2Receipt, l1Time, oracleLatest, games,
               provenLegacy, provenFP, finalizedWithdrawals>>
runVars == <<pc, from, proofTime, tx, txStatus, result>>
waitVars == <<clock, deadline, cancelled, minedAt, lastPoll, notFound>>
mainVars == <<flags, n, mainPc, crit, dialed, helper>>
pairVars == <<accountNonce, pool, proofRecord, runPc, runOpts, runProofTime,
              runTx, runResult>>
checkVars == <<submissionInterval, l2BlockTime, err>>
restVars == <<mainVars, pairVars, checkVars>>
vars == <<chainVars, runVars, waitVars, restVars>>

NoTx == [kind |-> "none", from |-> "S1", anchor |-> 0, sentAt |-> 0]
NoProof == [timestamp |-> 0, anchor |-> 0, prover |-> "S1"]

\* ====================================================================
\* The chain, as the calls of the tool read it
\* ====================================================================

\* portal.FinalizedWithdrawals(&bind.CallOpts{}, key)
FinalizedWithdrawals(key) == key \in finalizedWithdrawals

\* portal.ProvenWithdrawals(&bind.CallOpts{}, hash) of OptimismPortal:
\* one record per withdrawal hash.
ProvenWithdrawals(hash) ==
    IF hash = WithdrawalHash(L2TxHash) THEN provenLegacy ELSE NoProof

\* portal.ProvenWithdrawals(&bind.CallOpts{}, hash, submitter) of
\* OptimismPortal2: one record per (withdrawal hash, submitter).
ProvenWithdrawals2(hash, submitter) ==
    IF hash = WithdrawalHash(L2TxHash) THEN provenFP[submitter] ELSE NoProof

\* withdrawals.FindLatestGame: the most recently created dispute game.
HasGames == Len(games) > 0
LatestGameIndex == Len(games)
LatestGameBlock == games[Len(games)].l2Block

\* portal.CheckWithdrawal(&bind.CallOpts{}, hash, submitter) of
\* OptimismPortal2: the withdrawal is proven by the submitter, the proof has
\* matured, its dispute game resolved for the claim, and it is not finalized.
CheckWithdrawal(hash, submitter) ==
    LET p == ProvenWithdrawals2(hash, submitter) IN
    /\ p.timestamp # 0
    /\ l1Time > p.timestamp + period
    /\ games[p.anchor].status = "DEFENDER_WINS"
    /\ ~FinalizedWithdrawals(hash)

\* What the portal does with a mined prove transaction.
ProveSucceeds(t) ==
    IF variant = "legacy"
    THEN t.anchor >= WithdrawalBlock /\ provenLegacy.timestamp = 0
    ELSE /\ games[t.anchor].l2Block >= WithdrawalBlock
         /\ games[t.anchor].status # "CHALLENGER_WINS"

\* What the portal does with a mined finalize transaction.
FinalizeSucceeds(t) ==
    IF variant = "legacy"
    THEN /\ provenLegacy.timestamp # 0
         /\ l1Time > provenLegacy.timestamp + period
         /\ ~FinalizedWithdrawals(WithdrawalHash(L2TxHash))
    ELSE CheckWithdrawal(WithdrawalHash(L2TxHash), t.from)

\* ====================================================================
\* Environment: the two chains advance
\* ====================================================================

\* Nothing happens on the chain between the last call of a run returning
\* and the process exiting.
ChainMoves == pc # "done"

\* A new L1 block with a later timestamp.
Tick ==
    /\ ChainMoves
    /\ l1Time < MaxTime
    /\ l1Time' = l1Time + 1
    /\ UNCHANGED <<variant, period, l2Receipt, oracleLatest, games,
                   provenLegacy, provenFP, finalizedWithdrawals>>
    /\ UNCHANGED <<runVars, waitVars, restVars>>

\* The proposer submits the output of a later L2 block; the oracle only
\* accepts outputs of L2 blocks older than the L1 head.
ProposeOutput ==
    /\ ChainMoves
    /\ variant = "legacy"
    /\ \E b \in (oracleLatest + 1)..MaxBlock :
          /\ L2BlockTime(b) < l1Time
          /\ oracleLatest' = b
    /\ UNCHANGED <<variant, period, l2Receipt, l1Time, games,
                   provenLegacy, provenFP, finalizedWithdrawals>>
    /\ UNCHANGED <<runVars, waitVars, restVars>>

\* Anyone creates a dispute game claiming the output of some L2 block.
CreateGame ==
    /\ ChainMoves
    /\ variant = "fp"
    /\ Len(games) < MaxGames
    /\ \E b \in 0..MaxBlock :
          /\ L2BlockTime(b) < l1Time
          /\ games' = Append(games, [l2Block |-> b, status |-> "IN_PROGRESS"])
    /\ UNCHANGED <<variant, period, l2Receipt, l1Time, oracleLatest,
                   provenLegacy, provenFP, finalizedWithdrawals>>
    /\ UNCHANGED <<runVars, waitVars, restVars>>

\* Game i is the game of a Proof Record or of a prove on its way: the
\* portal reads the status of no other game.
Referenced(i) ==
    \/ \E s \in Submitters : provenFP[s].timestamp # 0 /\ provenFP[s].anchor = i
    \/ txStatus = "pending" /\ tx.kind = "prove" /\ tx.anchor = i

\* A dispute game resolves, for or against its claim.  The resolution of
\* a game whose status nothing reads yet is taken when it is first read.
ResolveGame ==
    /\ ChainMoves
    /\ variant = "fp"
    /\ \E i \in 1..Len(games), s \in {"DEFENDER_WINS", "CHALLENGER_WINS"} :
          /\ Referenced(i)
          /\ games[i].status = "IN_PROGRESS"
          /\ games' = [games EXCEPT ![i].status = s]
    /\ UNCHANGED <<variant, period, l2Receipt, l1Time, oracleLatest,
                   provenLegacy, provenFP, finalizedWithdrawals>>
    /\ UNCHANGED <<runVars, waitVars, restVars>>

\* ====================================================================
\* One run of the tool: processWithdrawal
\* ====================================================================

\* Failures of the clients (RPC, proof generation, signing, sending), which
\* any call may return whatever the state of the chain.
ClientErrors == {"ErrFinalizationStatus", "ErrChainRead", "ErrProofQuery",
                 "ErrProofParameters", "ErrSubmit"}

\* A run that would end with `r` after sending a prove transaction.
EndRunAfterSubmit(r) ==
    /\ pc' = "done"
    /\ result' = r
    /\ tx' = [kind |-> "prove", from |-> from, anchor |-> 0, sentAt |-> l1Time]
    /\ txStatus' = "pending"
    /\ UNCHANGED <<from, proofTime>>
    /\ UNCHANGED <<chainVars, waitVars, restVars>>

\* The run ends with `r` before any transaction was submitted.
EndRun(r) ==
    /\ pc' = "done"
    /\ result' = r
    /\ UNCHANGED <<from, proofTime, tx, txStatus>>
    /\ UNCHANGED <<chainVars, waitVars, restVars>>

\* A call that would go on leaving a prove transaction behind.
GotoLeavingTransaction(next) ==
    /\ pc' = next
    /\ tx' = [kind |-> "prove", from |-> from, anchor |-> 0, sentAt |-> l1Time]
    /\ txStatus' = "pending"
    /\ UNCHANGED <<from, proofTime, result>>
    /\ UNCHANGED <<chainVars, waitVars, restVars>>

\* The run goes on to its next call.
Goto(next) ==
    /\ pc' = next
    /\ UNCHANGED <<from, proofTime, tx, txStatus, result>>
    /\ UNCHANGED <<chainVars, waitVars, restVars>>

\* The tool is started with a signer; CreateWithdrawHelper sets Opts.From.
StartRun ==
    /\ pc = "idle"
    /\ \E s \in Submitters : from' = s
    /\ pc' = "IsProofFinalized"
    /\ proofTime' = 0
    /\ result' = "none"
    /\ tx' = NoTx
    /\ txStatus' = "none"
    /\ UNCHANGED <<chainVars, waitVars, restVars>>

\* The status the process exits with: processWithdrawal returns normally
\* after a message printed by itself or by the operation (returning nil),
\* and leaves through log.Crit on every error.
ExitStatus(r) ==
    IF r \in {"AlreadyFinalized", "OutputNotPastWithdrawal", "PeriodNotElapsed", "Confirmed"}
    THEN 0
    ELSE 1

\* The process exits.
Exit ==
    /\ pc = "done"
    /\ pc' = "idle"
    /\ from' = "S1"
    /\ proofTime' = 0
    /\ result' = "none"
    /\ tx' = NoTx
    /\ txStatus' = "none"
    /\ UNCHANGED <<chainVars, waitVars, restVars>>

\* w.Portal.FinalizedWithdrawals(&bind.CallOpts{}, w.L2TxHash)
IsProofFinalized == FinalizedWithdrawals(L2TxHash)

\* processWithdrawal: isFinalized, err := withdrawer.IsProofFinalized()
StepIsProofFinalized ==
    /\ pc = "IsProofFinalized"
    /\ \/ EndRun("ErrFinalizationStatus")
       \/ /\ IsProofFinalized
          /\ EndRun("AlreadyFinalized")
       \/ /\ ~IsProofFinalized
          /\ Goto("CheckIfProvable")

\* A TxBlock that would not look at the status of the receipt.
TxBlockErrorIgnoringStatus ==
    IF l2Receipt = "notfound" THEN "ReceiptNotFound" ELSE "none"

\* TxBlock: the block of the L2 withdrawal transaction, or an error.
TxBlockError ==
    CASE l2Receipt = "notfound" -> "ReceiptNotFound"
      [] l2Receipt = "failed" -> "ReceiptFailed"
      [] OTHER -> "none"

\* A check that would also refuse an output of the withdrawal's own block.
LegacyCheckIfProvableStrictlyPast ==
    CASE TxBlockError # "none" -> TxBlockError
      [] oracleLatest <= WithdrawalBlock -> "NotProvableYet"
      [] OTHER -> "none"

\* Withdrawer.CheckIfProvable: "none" or the error it returns.
LegacyCheckIfProvable ==
    CASE TxBlockError # "none" -> TxBlockError
      [] oracleLatest < WithdrawalBlock -> "NotProvableYet"
      [] OTHER -> "none"

\* FPWithdrawer.CheckIfProvable: "none" or the error it returns.
FPCheckIfProvable ==
    CASE TxBlockError # "none" -> TxBlockError
      [] ~HasGames -> "NoLatestGame"
      [] LatestGameBlock < WithdrawalBlock -> "NotProvableYet"
      [] OTHER -> "none"

\* CreateWithdrawHelper picks the implementation by the network's variant.
CheckIfProvable ==
    IF variant = "legacy" THEN LegacyCheckIfProvable ELSE FPCheckIfProvable

\* processWithdrawal: err = withdrawer.CheckIfProvable()
StepCheckIfProvable ==
    /\ pc = "CheckIfProvable"
    /\ \/ EndRun("ErrChainRead")
       \/ /\ CheckIfProvable # "none"
          /\ EndRun(CheckIfProvable)
       \/ /\ CheckIfProvable = "none"
          /\ Goto("GetProvenWithdrawalTime")

\* A lookup that would bind the legacy Proof Record to its prover.
GetProvenWithdrawalOfSubmitter ==
    IF provenLegacy.prover = from THEN ProvenWithdrawals(WithdrawalHash(L2TxHash))
                                  ELSE NoProof

\* Withdrawer.GetProvenWithdrawal: the Proof Record of the withdrawal hash.
GetProvenWithdrawal == ProvenWithdrawals(WithdrawalHash(L2TxHash))

\* A lookup that would read the Proof Record of whoever proved.
FPGetProvenWithdrawalTimeOfAnyone ==
    LET provers == {s \in Submitters : provenFP[s].timestamp # 0}
    IN  IF provers = {} THEN 0
        ELSE provenFP[CHOOSE s \in provers : TRUE].timestamp

\* FPWithdrawer.GetProvenWithdrawalTime: the timestamp of the Proof Record
\* of the withdrawal hash under w.Opts.From.
FPGetProvenWithdrawalTime ==
    ProvenWithdrawals2(WithdrawalHash(L2TxHash), from).timestamp

\* proofTime as processWithdrawal / main gets it.
GetProvenWithdrawalTime ==
    IF variant = "legacy" THEN GetProvenWithdrawal.timestamp
                          ELSE FPGetProvenWithdrawalTime

\* A selection that finalizes whatever the proof timestamp is.
NextActionAlwaysFinalize(t) == "FinalizeWithdrawal"

\* A selection that proves whatever the proof timestamp is.
NextActionAlwaysProve(t) == "ProveWithdrawal"

\* processWithdrawal: if proofTime == 0 { ProveWithdrawal ... return };
\* otherwise FinalizeWithdrawal.
NextAction(t) == IF t = 0 THEN "ProveWithdrawal" ELSE "FinalizeWithdrawal"

\* processWithdrawal: proofTime, err := withdrawer.GetProvenWithdrawalTime()
\* and the choice of the prove or the finalize path.
StepGetProvenWithdrawalTime ==
    /\ pc = "GetProvenWithdrawalTime"
    /\ \/ EndRun("ErrProofQuery")
       \/ /\ proofTime' = GetProvenWithdrawalTime
          /\ pc' = NextAction(proofTime')
          /\ UNCHANGED <<from, tx, txStatus, result>>
          /\ UNCHANGED <<chainVars, waitVars, restVars>>

\* portal.ProveWithdrawalTransaction / FinalizeWithdrawalTransaction
\* returned a transaction: it is on its way, and the operation goes on to
\* WaitForConfirmation under context.WithTimeout(ctx, 5*time.Minute).
Submit(kind, anchor) ==
    /\ tx' = [kind |-> kind, from |-> from, anchor |-> anchor, sentAt |-> l1Time]
    /\ txStatus' = "pending"
    /\ pc' = "WaitForConfirmation"
    /\ UNCHANGED <<from, proofTime, result>>
    /\ UNCHANGED <<chainVars, waitVars, restVars>>

\* The anchor the proof parameters are generated for: the oracle's latest
\* output, or the latest dispute game, as of the call.
ProveAnchor == IF variant = "legacy" THEN oracleLatest ELSE LatestGameIndex

\* A ProveWithdrawal that would go on to the confirmation wait although the
\* contract call returned an error.
StepProveWithdrawalIgnoringError ==
    /\ pc = "ProveWithdrawal"
    /\ \/ EndRun("ErrProofParameters")
       \/ /\ pc' = "WaitForConfirmation"
          /\ result' = "ErrSubmit"
          /\ UNCHANGED <<from, proofTime, tx, txStatus>>
          /\ UNCHANGED <<chainVars, waitVars, restVars>>
       \/ Submit("prove", ProveAnchor)

\* ProveWithdrawal of Withdrawer and of FPWithdrawer.
StepProveWithdrawal ==
    /\ pc = "ProveWithdrawal"
    /\ \/ EndRun("ErrProofParameters")
       \/ EndRun("ErrSubmit")
       \/ Submit("prove", ProveAnchor)

\* A gate that would count the period from the Proof Record's timestamp,
\* boundary included.
LegacyFinalizeGateFromProof ==
    CASE TxBlockError # "none" -> TxBlockError
      [] oracleLatest < WithdrawalBlock -> "OutputNotPastWithdrawal"
      [] provenLegacy.timestamp + period >= l1Time -> "PeriodNotElapsed"
      [] OTHER -> "none"

\* A gate that would not wait for the finalization period.
LegacyFinalizeGateNoPeriod ==
    CASE TxBlockError # "none" -> TxBlockError
      [] oracleLatest < WithdrawalBlock -> "OutputNotPastWithdrawal"
      [] OTHER -> "none"

\* The checks of Withdrawer.FinalizeWithdrawal before it builds the
\* transaction: "none", or the condition it reports.
LegacyFinalizeGate ==
    CASE TxBlockError # "none" -> TxBlockError
      [] oracleLatest < WithdrawalBlock -> "OutputNotPastWithdrawal"
      [] WithdrawalTime + period >= l1Time -> "PeriodNotElapsed"
      [] OTHER -> "none"

\* A gate that would not look at the dispute game of the proof.
FPFinalizeGateIgnoringGame ==
    LET p == ProvenWithdrawals2(WithdrawalHash(L2TxHash), from) IN
    IF p.timestamp # 0 /\ l1Time > p.timestamp + period
          /\ ~FinalizedWithdrawals(WithdrawalHash(L2TxHash))
    THEN "none"
    ELSE "NotFinalizable"

\* A gate that would only look for a proof of the submitter.
FPFinalizeGateProofOnly ==
    IF ProvenWithdrawals2(WithdrawalHash(L2TxHash), from).timestamp # 0
    THEN "none"
    ELSE "NotFinalizable"

\* The checks of FPWithdrawer.FinalizeWithdrawal: portal.CheckWithdrawal
\* under w.Opts.From.
FPFinalizeGate ==
    IF CheckWithdrawal(WithdrawalHash(L2TxHash), from) THEN "none" ELSE "NotFinalizable"

FinalizeGate == IF variant = "legacy" THEN LegacyFinalizeGate ELSE FPFinalizeGate

\* FinalizeWithdrawal of Withdrawer and of FPWithdrawer.
StepFinalizeWithdrawal ==
    /\ pc = "FinalizeWithdrawal"
    /\ \/ EndRun("ErrChainRead")
       \/ /\ FinalizeGate # "none"
          /\ EndRun(FinalizeGate)
       \/ /\ FinalizeGate = "none"
          /\ \/ EndRun("ErrProofParameters")
             \/ EndRun("ErrSubmit")
             \/ Submit("finalize", 0)

\* ====================================================================
\* WaitForConfirmation(ctx, client, tx)
\* ====================================================================

\* A context that would be done one poll interval before its deadline.
CtxDoneEarly == cancelled \/ (deadline # NoTime /\ clock + PollInterval >= deadline)

\* ctx.Done() is closed: the caller cancelled, or the deadline has passed.
CtxDone == cancelled \/ (deadline # NoTime /\ clock >= deadline)

\* A context whose error would not tell cancellation from expiry.
CtxErrDeadlineOnly == "DeadlineExceeded"

\* ctx.Err() once ctx is done.
CtxErr == IF cancelled THEN "Canceled" ELSE "DeadlineExceeded"

\* WaitForConfirmation returns `r`.
Return(r) ==
    /\ pc' = "returned"
    /\ result' = r
    /\ UNCHANGED <<from, proofTime, tx, txStatus>>
    /\ UNCHANGED <<deadline, cancelled, minedAt>>
    /\ UNCHANGED <<chainVars, restVars>>

\* A classification that would not look at the status of the receipt.
ClassifyIgnoringStatus(lookup) ==
    CASE lookup = "notfound" -> "sleep"
      [] lookup = "error" -> "ErrLookup"
      [] lookup = "ctxError" -> CtxErr
      [] OTHER -> "Confirmed"

\* A classification that would treat ethereum.NotFound as any other error.
ClassifyNotFoundAsError(lookup) ==
    CASE lookup \in {"notfound", "error"} -> "ErrLookup"
      [] lookup = "ctxError" -> CtxErr
      [] lookup = "failed" -> "Reverted"
      [] OTHER -> "Confirmed"

\* A classification that would retry after any lookup error.
ClassifyErrorAsNotFound(lookup) ==
    CASE lookup \in {"notfound", "error"} -> "sleep"
      [] lookup = "ctxError" -> CtxErr
      [] lookup = "failed" -> "Reverted"
      [] OTHER -> "Confirmed"

\* What the loop does with a receipt lookup that returned `lookup`:
\* "sleep" for ethereum.NotFound, otherwise the result it returns.
Classify(lookup) ==
    CASE lookup = "notfound" -> "sleep"
      [] lookup = "error" -> "ErrLookup"
      [] lookup = "ctxError" -> CtxErr
      [] lookup = "failed" -> "Reverted"
      [] OTHER -> "Confirmed"

\* receipt, err := client.TransactionReceipt(ctx, tx), and the branch taken.
PollWith(lookup) ==
    /\ lastPoll' = lookup
    /\ clock' = clock
    /\ IF Classify(lookup) = "sleep"
       THEN /\ pc' = "sleep"
            /\ notFound' = notFound + 1
            /\ UNCHANGED <<from, proofTime, tx, txStatus, result>>
            /\ UNCHANGED <<deadline, cancelled, minedAt>>
            /\ UNCHANGED <<chainVars, restVars>>
       ELSE /\ notFound' = notFound
            /\ Return(Classify(lookup))

\* One iteration of the loop: the lookup fails with the context's error
\* when ctx is done, may fail with another error, and otherwise reports
\* the receipt or ethereum.NotFound.
Poll ==
    /\ pc = "poll"
    /\ IF CtxDone
       THEN PollWith("ctxError")
       ELSE \/ PollWith("error")
            \/ PollWith(IF txStatus = "pending" THEN "notfound" ELSE txStatus)

\* select { case <-ctx.Done(): return ctx.Err(); case <-time.After(d): }
\* The timer fires d after the lookup; when both channels are ready at the
\* same instant either case may be taken.
SelectAfter(d) ==
    /\ pc = "sleep"
    /\ UNCHANGED <<lastPoll, notFound>>
    /\ \/ /\ cancelled
          /\ clock' = clock
          /\ Return(CtxErr)
       \/ /\ ~cancelled
          /\ deadline # NoTime
          /\ deadline <= clock + d
          /\ clock' = deadline
          /\ Return(CtxErr)
       \/ /\ ~cancelled
          /\ deadline = NoTime \/ deadline >= clock + d
          /\ deadline = NoTime => clock < WaitHorizon
          /\ clock' = clock + d
          /\ pc' = "poll"
          /\ UNCHANGED <<from, proofTime, tx, txStatus, result>>
          /\ UNCHANGED <<deadline, cancelled, minedAt>>
          /\ UNCHANGED <<chainVars, restVars>>

\* A loop that would sleep out the interval whatever the context does:
\* time.Sleep(5 * time.Second) in place of the select.
SelectTimerOnly ==
    /\ pc = "sleep"
    /\ (deadline = NoTime => clock < WaitHorizon)
    /\ clock' = clock + PollInterval
    /\ pc' = "poll"
    /\ UNCHANGED <<lastPoll, notFound>>
    /\ UNCHANGED <<from, proofTime, tx, txStatus, result>>
    /\ UNCHANGED <<deadline, cancelled, minedAt>>
    /\ UNCHANGED <<chainVars, restVars>>

\* A loop that would sleep two poll intervals between lookups.
SelectTwice == SelectAfter(2 * PollInterval)

\* The loop sleeps time.After(5 * time.Second) between lookups.
Select == SelectAfter(PollInterval)

\* ====================================================================
\* Environment: the submitted transaction is mined
\* ====================================================================

\* Whether the portal accepts transaction t at the L1 head.
Succeeds(t) == IF t.kind = "prove" THEN ProveSucceeds(t) ELSE FinalizeSucceeds(t)

\* The portal executes transaction t in a block at the L1 head time: a
\* prove writes the Proof Record, a finalize the Finalization Record, and a
\* reverted transaction writes nothing.
Execute(t) ==
    /\ provenLegacy' =
          IF Succeeds(t) /\ t.kind = "prove" /\ variant = "legacy"
          THEN [timestamp |-> l1Time, anchor |-> t.anchor, prover |-> t.from]
          ELSE provenLegacy
    /\ provenFP' =
          IF Succeeds(t) /\ t.kind = "prove" /\ variant = "fp"
          THEN [provenFP EXCEPT ![t.from] =
                  [timestamp |-> l1Time, anchor |-> t.anchor, prover |-> t.from]]
          ELSE provenFP
    /\ finalizedWithdrawals' =
          IF Succeeds(t) /\ t.kind = "finalize"
          THEN finalizedWithdrawals \cup {WithdrawalHash(L2TxHash)}
          ELSE finalizedWithdrawals
    /\ UNCHANGED <<variant, period, l2Receipt, l1Time, oracleLatest, games>>

\* The run's transaction is mined while the run waits for its receipt.
MineTx ==
    /\ ChainMoves
    /\ txStatus = "pending"
    /\ Execute(tx)
    /\ txStatus' = IF Succeeds(tx) THEN "success" ELSE "failed"
    /\ UNCHANGED <<pc, from, proofTime, tx, result>>
    /\ UNCHANGED <<waitVars, restVars>>

\* What WaitForConfirmation can return to a run, the receipt being as it
\* is when the loop ends: the poll count and the wait's clock are not kept
\* in the lifecycle (the loop itself is specified by SpecWait below).
AwaitOutcomes ==
    {"ErrLookup", "DeadlineExceeded"}
        \cup (CASE txStatus = "success" -> {"Confirmed"}
                [] txStatus = "failed" -> {"Reverted"}
                [] OTHER -> {})

\* A processWithdrawal that would not return after a confirmed prove and
\* fall through to FinalizeWithdrawal.
StepWaitForConfirmationFallingThrough ==
    /\ pc = "WaitForConfirmation"
    /\ \E r \in AwaitOutcomes :
          /\ result' = r
          /\ pc' = IF r = "Confirmed" /\ tx.kind = "prove" THEN "FinalizeWithdrawal"
                   ELSE "done"
    /\ UNCHANGED <<from, proofTime, tx, txStatus>>
    /\ UNCHANGED <<chainVars, waitVars, restVars>>

\* A run that would call the operation again after a revert or a timeout.
StepWaitForConfirmationRetry ==
    /\ pc = "WaitForConfirmation"
    /\ \E r \in AwaitOutcomes :
          /\ result' = r
          /\ pc' = IF r = "Confirmed" THEN "done"
                   ELSE IF tx.kind = "prove" THEN "ProveWithdrawal"
                   ELSE "FinalizeWithdrawal"
          /\ tx' = IF r = "Confirmed" THEN tx ELSE NoTx
          /\ txStatus' = IF r = "Confirmed" THEN txStatus ELSE "none"
    /\ UNCHANGED <<from, proofTime>>
    /\ UNCHANGED <<chainVars, waitVars, restVars>>

\* ProveWithdrawal / FinalizeWithdrawal return what WaitForConfirmation
\* returned, and processWithdrawal ends the run.
StepWaitForConfirmation ==
    /\ pc = "WaitForConfirmation"
    /\ \E r \in AwaitOutcomes : result' = r
    /\ pc' = "done"
    /\ UNCHANGED <<from, proofTime, tx, txStatus>>
    /\ UNCHANGED <<chainVars, waitVars, restVars>>

\* ====================================================================
\* Withdrawer.CheckIfProvable and the error it returns
\* ====================================================================

\* d.String() of a time.Duration of `sec` whole seconds, as %v prints it:
\* hours, minutes and seconds ("1h0m0s", "1m30s", "30s").
DurationString(sec) ==
    [h |-> sec \div 3600, m |-> (sec % 3600) \div 60, s |-> sec % 60]

\* An estimate that would leave the L2 block time out:
\* time.Duration(submissionInterval.Int64()) * time.Second.
EstimatedWaitIntervalOnly == submissionInterval

\* time.Duration(submissionInterval.Int64()*l2BlockTime.Int64()) * time.Second,
\* in seconds.
EstimatedWait == submissionInterval * l2BlockTime

\* CheckIfProvable returned nil.
NoErr == [kind |-> "none", latest |-> 0, withdrawal |-> 0, every |-> DurationString(0)]

\* An error without numbers in it: a failed query, or the error of TxBlock.
PlainErr(kind) == [NoErr EXCEPT !.kind = kind]

\* fmt.Errorf("the latest L2 output is %d and is not past L2 block %d that
\* includes the withdrawal, no withdrawal can be proved yet.\nPlease wait
\* for the next proposal submission, which happens every %v", ...)
NotProvableYetErr ==
    [kind |-> "NotProvableYet",
     latest |-> oracleLatest,
     withdrawal |-> WithdrawalBlock,
     every |-> DurationString(EstimatedWait)]

\* Withdrawer.CheckIfProvable with the error value it returns; the run
\* goes on or ends with log.Crit("Withdrawal is not provable", "error", err).
WithdrawerCheckIfProvable ==
    /\ pc = "CheckIfProvable"
    /\ variant = "legacy"
    /\ \/ err' = PlainErr("ErrChainRead")
       \/ /\ TxBlockError # "none"
          /\ err' = PlainErr(TxBlockError)
       \/ /\ TxBlockError = "none"
          /\ err' = IF oracleLatest < WithdrawalBlock THEN NotProvableYetErr ELSE NoErr
    /\ pc' = IF err' = NoErr THEN "GetProvenWithdrawalTime" ELSE "done"
    /\ result' = err'.kind
    /\ UNCHANGED <<from, proofTime, tx, txStatus>>
    /\ UNCHANGED <<submissionInterval, l2BlockTime>>
    /\ UNCHANGED <<chainVars, waitVars, mainVars, pairVars>>

\* The variables of the check while another specification runs.
CheckAtRest ==
    /\ submissionInterval = 0
    /\ l2BlockTime = 0
    /\ err = NoErr

\* ====================================================================
\* main: the flags, their validation, CreateWithdrawHelper
\* ====================================================================

\* var networks = map[string]network{...}: the predefined networks.
networks ==
    ("base-mainnet" :>
        [l2RPC |-> "https://mainnet.base.org",
         portalAddress |-> "0x49048044D57e1C92A77f79988d21Fa8fAF74E97e",
         l2OOAddress |-> "0x56315b90c40730925ec5485cf004d835058518A0",
         disputeGameFactory |-> "0x0000000000000000000000000000000000000000",
         faultProofs |-> FALSE])
    @@ ("base-sepolia" :>
        [l2RPC |-> "https://sepolia.base.org",
         portalAddress |-> "0x49f53e41452C74589E85cA1677426Ba426459e85",
         l2OOAddress |-> "0x0000000000000000000000000000000000000000",
         disputeGameFactory |-> "0xd6E6dBf4F7EA0ac412fD8b65ED297e64BB7a06E1",
         faultProofs |-> TRUE])
    @@ ("op-mainnet" :>
        [l2RPC |-> "https://mainnet.optimism.io",
         portalAddress |-> "0xbEb5Fc579115071764c7423A4f12eDde41f106Ed",
         l2OOAddress |-> "0x0000000000000000000000000000000000000000",
         disputeGameFactory |-> "0xe5965Ab5962eDc7477C8520243A95517CD252fA9",
         faultProofs |-> TRUE])
    @@ ("op-sepolia" :>
        [l2RPC |-> "https://sepolia.optimism.io",
         portalAddress |-> "0x16Fc5058F25648194471939df75CF27A2fdC48BC",
         l2OOAddress |-> "0x0000000000000000000000000000000000000000",
         disputeGameFactory |-> "0x05F9613aDB30026FFd634f38e5C4dFd30a197Fa1",
         faultProofs |-> TRUE])

\* The zero value of the network struct (a lookup that found nothing).
NoNetwork ==
    [l2RPC |-> "", portalAddress |-> "", l2OOAddress |-> "",
     disputeGameFactory |-> "", faultProofs |-> FALSE]

\* No helper has been created.
NoHelper == [type |-> "none", l2RPC |-> "", portalAddress |-> "", anchorAddress |-> ""]

\* The flags as flag.Parse leaves them when none is given.
DefaultFlags ==
    [network |-> "base-mainnet", faultProofs |-> FALSE, rpc |-> "",
     l2Rpc |-> "", portalAddress |-> "", l2OOAddress |-> "", dgfAddress |-> "",
     withdrawal |-> "", privateKey |-> "", ledger |-> FALSE, mnemonic |-> ""]

\* The command lines considered: every predefined network and an unknown
\* one, and each other flag either absent or given.
FlagSets ==
    [network : DOMAIN networks \cup {"my-network"},
     faultProofs : BOOLEAN,
     rpc : {"", "https://l1.example"},
     l2Rpc : {"", "https://l2.example"},
     portalAddress : {"", "0xP"},
     l2OOAddress : {"", "0xO"},
     dgfAddress : {"", "0xD"},
     withdrawal : {"", "0xW"},
     privateKey : {"", "0xK"},
     ledger : BOOLEAN,
     mnemonic : {"", "abandon"}]

\* main is not running (the other specifications).
MainAtRest ==
    /\ flags = DefaultFlags
    /\ n = NoNetwork
    /\ mainPc = "off"
    /\ crit = "none"
    /\ dialed = {}
    /\ helper = NoHelper

\* log.Crit(msg): the message is logged and the process exits with status 1.
Crit(msg) ==
    /\ mainPc' = "exited"
    /\ crit' = msg
    /\ UNCHANGED <<flags, n, dialed, helper>>
    /\ UNCHANGED <<chainVars, runVars, waitVars, pairVars, checkVars>>

\* main goes on to its next statement.
Continue(next) ==
    /\ mainPc' = next
    /\ UNCHANGED <<flags, n, crit, dialed, helper>>
    /\ UNCHANGED <<chainVars, runVars, waitVars, pairVars, checkVars>>

\* n, ok := networks[networkFlag]; if !ok { log.Crit("Unknown network") }
StepLookupNetwork ==
    /\ mainPc = "networks"
    /\ IF flags.network \in DOMAIN networks
       THEN /\ n' = networks[flags.network]
            /\ mainPc' = "validateNetworkFaultProofs"
            /\ UNCHANGED <<flags, crit, dialed, helper>>
            /\ UNCHANGED <<chainVars, runVars, waitVars, pairVars, checkVars>>
       ELSE Crit("Unknown network")

\* A validation that would not insist on --fault-proofs where required.
validateNetworkFaultProofsOneWay(faultProofs, net) ==
    IF faultProofs /\ ~net.faultProofs
    THEN "Fault proofs are not supported on this network"
    ELSE "none"

\* validateNetworkFaultProofs(faultProofs, n): "none" or the message of
\* its log.Crit.
validateNetworkFaultProofs(faultProofs, net) ==
    CASE faultProofs /\ ~net.faultProofs ->
            "Fault proofs are not supported on this network"
      [] ~faultProofs /\ net.faultProofs ->
            "Fault proofs are required on this network, please provide the --fault-proofs flag"
      [] OTHER -> "none"

StepValidateNetworkFaultProofs ==
    /\ mainPc = "validateNetworkFaultProofs"
    /\ IF validateNetworkFaultProofs(flags.faultProofs, n) = "none"
       THEN Continue("validateNetworkFlags")
       ELSE Crit(validateNetworkFaultProofs(flags.faultProofs, n))

\* validateNetworkFlags(faultProofs, l2RpcFlag, portalAddress, l2OOAddress,
\* dgfAddress, &n): the message of its log.Crit ("none": none) and the
\* network struct it leaves in n.
validateNetworkFlags(f, net) ==
    IF ~f.faultProofs
    THEN IF f.l2Rpc = "" \/ f.portalAddress = "" \/ f.l2OOAddress = ""
         THEN [err |-> "Missing required flags for non-fault proof network", n |-> net]
         ELSE [err |-> "none",
               n |-> [net EXCEPT !.l2RPC = f.l2Rpc,
                                 !.portalAddress = f.portalAddress,
                                 !.l2OOAddress = f.l2OOAddress]]
    ELSE IF f.l2Rpc = "" \/ f.dgfAddress = "" \/ f.portalAddress = ""
         THEN [err |-> "Missing required flags for fault proof network", n |-> net]
         ELSE [err |-> "none",
               n |-> [net EXCEPT !.l2RPC = f.l2Rpc,
                                 !.portalAddress = f.portalAddress,
                                 !.disputeGameFactory = f.dgfAddress]]

StepValidateNetworkFlags ==
    /\ mainPc = "validateNetworkFlags"
    /\ LET v == validateNetworkFlags(flags, n) IN
       IF v.err = "none"
       THEN /\ n' = v.n
            /\ mainPc' = "validateEssentialFlags"
            /\ UNCHANGED <<flags, crit, dialed, helper>>
            /\ UNCHANGED <<chainVars, runVars, waitVars, pairVars, checkVars>>
       ELSE Crit(v.err)

\* validateEssentialFlags(rpcFlag, withdrawalFlag)
validateEssentialFlags(rpcFlag, withdrawalFlag) ==
    CASE rpcFlag = "" -> "Missing --rpc flag"
      [] withdrawalFlag = "" -> "Missing --withdrawal flag"
      [] OTHER -> "none"

StepValidateEssentialFlags ==
    /\ mainPc = "validateEssentialFlags"
    /\ IF validateEssentialFlags(flags.rpc, flags.withdrawal) = "none"
       THEN Continue("validateSignerOptions")
       ELSE Crit(validateEssentialFlags(flags.rpc, flags.withdrawal))

\* The signing methods selected on the command line.
SignerOptions(privateKey, ledger, mnemonic) ==
    (IF privateKey # "" THEN 1 ELSE 0)
        + (IF ledger THEN 1 ELSE 0)
        + (IF mnemonic # "" THEN 1 ELSE 0)

\* A validation that would accept several signing methods at once.
validateSignerOptionsAtLeastOne(privateKey, ledger, mnemonic) ==
    IF SignerOptions(privateKey, ledger, mnemonic) >= 1
    THEN "none"
    ELSE "One (and only one) of --private-key, --ledger, --mnemonic must be set"

\* validateSignerOptions(privateKey, ledger, mnemonic)
validateSignerOptions(privateKey, ledger, mnemonic) ==
    IF SignerOptions(privateKey, ledger, mnemonic) # 1
    THEN "One (and only one) of --private-key, --ledger, --mnemonic must be set"
    ELSE "none"

StepValidateSignerOptions ==
    /\ mainPc = "validateSignerOptions"
    /\ IF validateSignerOptions(flags.privateKey, flags.ledger, flags.mnemonic) = "none"
       THEN Continue("CreateSigner")
       ELSE Crit(validateSignerOptions(flags.privateKey, flags.ledger, flags.mnemonic))

\* s, err := signer.CreateSigner(privateKey, mnemonic, hdPath): the key,
\* the mnemonic, the derivation path or the Ledger may be unusable.
StepCreateSigner ==
    /\ mainPc = "CreateSigner"
    /\ \/ Continue("CreateWithdrawHelper")
       \/ Crit("Error creating signer")

\* The helper CreateWithdrawHelper returns for network struct net.
HelperFor(net) ==
    IF net.faultProofs
    THEN [type |-> "FPWithdrawer", l2RPC |-> net.l2RPC,
          portalAddress |-> net.portalAddress, anchorAddress |-> net.disputeGameFactory]
    ELSE [type |-> "Withdrawer", l2RPC |-> net.l2RPC,
          portalAddress |-> net.portalAddress, anchorAddress |-> net.l2OOAddress]

\* withdrawer, err := CreateWithdrawHelper(rpcFlag, withdrawal, n, s): the
\* L1 client is dialed (chain id, pending nonce), then the L2 client, then
\* the contracts are bound; any of these may fail.
StepCreateWithdrawHelper ==
    /\ mainPc = "CreateWithdrawHelper"
    /\ \/ /\ dialed' \in {{flags.rpc}, {flags.rpc, n.l2RPC}}
          /\ mainPc' = "exited"
          /\ crit' = "Error creating withdrawer"
          /\ UNCHANGED <<flags, n, helper>>
          /\ UNCHANGED <<chainVars, runVars, waitVars, pairVars, checkVars>>
       \/ /\ dialed' = {flags.rpc, n.l2RPC}
          /\ helper' = HelperFor(n)
          /\ mainPc' = "processWithdrawal"
          /\ UNCHANGED <<flags, n, crit>>
          /\ UNCHANGED <<chainVars, runVars, waitVars, pairVars, checkVars>>

\* ====================================================================
\* Two runs under one signing address
\* ====================================================================

Runs == {"R1", "R2"}

\* No transaction submitted.
NoRunTx == [kind |-> "none", nonce |-> 0, status |-> "none"]

\* No run is started (the other specifications).
PairAtRest ==
    /\ accountNonce = 0
    /\ pool = {}
    /\ proofRecord = FALSE
    /\ runPc = [r \in Runs |-> "idle"]
    /\ runOpts = [r \in Runs |-> 0]
    /\ runProofTime = [r \in Runs |-> FALSE]
    /\ runTx = [r \in Runs |-> NoRunTx]
    /\ runResult = [r \in Runs |-> "none"]

\* The first nonce from k on that no pending transaction uses.
RECURSIVE NextFreeNonce(_)
NextFreeNonce(k) ==
    IF \E t \in pool : t.nonce = k THEN NextFreeNonce(k + 1) ELSE k

\* l1Client.PendingNonceAt(ctx, s.Address()): the nonce after the
\* transactions of the address that are mined or pending.
PendingNonceAt == NextFreeNonce(accountNonce)

\* A helper that would start one below the pending nonce.
OptsNonceBelowPending == IF PendingNonceAt = 0 THEN 0 ELSE PendingNonceAt - 1

\* A helper that would leave room for the runs that have not submitted yet.
OptsNonceAfterRunning ==
    PendingNonceAt
        + Cardinality({q \in Runs : runPc[q] \in {"GetProvenWithdrawalTime",
                                                  "ProveWithdrawal",
                                                  "FinalizeWithdrawal"}})

\* l1opts := &bind.TransactOpts{..., Nonce: big.NewInt(int64(l1Nonce))}
OptsNonce == PendingNonceAt

\* CreateWithdrawHelper for run r: the pending nonce is read once and kept
\* in Opts.
RunCreateWithdrawHelper(r) ==
    /\ runPc[r] = "idle"
    /\ PendingNonceAt < MaxNonce
    /\ runOpts' = [runOpts EXCEPT ![r] = OptsNonce]
    /\ runPc' = [runPc EXCEPT ![r] = "GetProvenWithdrawalTime"]
    /\ UNCHANGED <<accountNonce, pool, proofRecord, runProofTime, runTx, runResult>>
    /\ UNCHANGED <<chainVars, runVars, waitVars, mainVars, checkVars>>

\* processWithdrawal of run r: the proof timestamp is read and the prove
\* or the finalize path chosen.
RunGetProvenWithdrawalTime(r) ==
    /\ runPc[r] = "GetProvenWithdrawalTime"
    /\ runProofTime' = [runProofTime EXCEPT ![r] = proofRecord]
    /\ runPc' = [runPc EXCEPT ![r] = NextAction(IF proofRecord THEN 1 ELSE 0)]
    /\ UNCHANGED <<accountNonce, pool, proofRecord, runOpts, runTx, runResult>>
    /\ UNCHANGED <<chainVars, runVars, waitVars, mainVars, checkVars>>

\* The transaction run r's operation signs: its kind, and Opts.Nonce.
RunTransaction(r) ==
    [kind |-> IF runPc[r] = "ProveWithdrawal" THEN "prove" ELSE "finalize",
     nonce |-> runOpts[r],
     status |-> "pending"]

\* ProveWithdrawal / FinalizeWithdrawal of run r hand the transaction to
\* the node.  The node refuses a nonce that is already mined; a transaction
\* with the nonce of a pending one is refused or replaces it, depending on
\* the fees; the call can also fail for other reasons.
RunSubmit(r) ==
    /\ runPc[r] \in {"ProveWithdrawal", "FinalizeWithdrawal"}
    /\ LET t == RunTransaction(r)
           same == {u \in pool : u.nonce = t.nonce}
           fail == /\ runPc' = [runPc EXCEPT ![r] = "done"]
                   /\ runResult' = [runResult EXCEPT ![r] = "ErrSubmit"]
                   /\ UNCHANGED <<pool, runTx>>
           accept == /\ pool' = (pool \ same) \cup {[run |-> r, kind |-> t.kind, nonce |-> t.nonce]}
                     /\ runTx' = [q \in Runs |->
                                    IF q = r THEN t
                                    ELSE IF \E u \in same : u.run = q /\ runTx[q].nonce = u.nonce
                                                              /\ runTx[q].status = "pending"
                                         THEN [runTx[q] EXCEPT !.status = "dropped"]
                                         ELSE runTx[q]]
                     /\ runPc' = [runPc EXCEPT ![r] = "WaitForConfirmation"]
                     /\ UNCHANGED runResult
       IN  \/ fail
           \/ /\ t.nonce >= accountNonce
              /\ accept
    /\ UNCHANGED <<accountNonce, proofRecord, runOpts, runProofTime>>
    /\ UNCHANGED <<chainVars, runVars, waitVars, mainVars, checkVars>>

\* The pending transaction with the next nonce is mined: a prove writes
\* the Proof Record, and the portal may revert either kind.
MinePending ==
    \E t \in pool :
        /\ t.nonce = accountNonce
        /\ \E ok \in BOOLEAN :
              /\ proofRecord' = (proofRecord \/ (ok /\ t.kind = "prove"))
              /\ runTx' = [q \in Runs |->
                             IF q = t.run /\ runTx[q].nonce = t.nonce /\ runTx[q].status = "pending"
                             THEN [runTx[q] EXCEPT !.status = IF ok THEN "success" ELSE "failed"]
                             ELSE runTx[q]]
        /\ pool' = pool \ {t}
        /\ accountNonce' = accountNonce + 1
        /\ UNCHANGED <<runPc, runOpts, runProofTime, runResult>>
        /\ UNCHANGED <<chainVars, runVars, waitVars, mainVars, checkVars>>

\* WaitForConfirmation of run r returns: with the receipt when there is
\* one, with an error otherwise; the run ends with it.
RunWaitForConfirmation(r) ==
    /\ runPc[r] = "WaitForConfirmation"
    /\ \E res \in {"ErrLookup", "DeadlineExceeded"}
                  \cup (CASE runTx[r].status = "success" -> {"Confirmed"}
                          [] runTx[r].status = "failed" -> {"Reverted"}
                          [] OTHER -> {}) :
          runResult' = [runResult EXCEPT ![r] = res]
    /\ runPc' = [runPc EXCEPT ![r] = "done"]
    /\ UNCHANGED <<accountNonce, pool, proofRecord, runOpts, runProofTime, runTx>>
    /\ UNCHANGED <<chainVars, runVars, waitVars, mainVars, checkVars>>

\* The process of run r exits.
RunExit(r) ==
    /\ runPc[r] = "done"
    /\ runPc' = [runPc EXCEPT ![r] = "idle"]
    /\ runOpts' = [runOpts EXCEPT ![r] = 0]
    /\ runProofTime' = [runProofTime EXCEPT ![r] = FALSE]
    /\ runTx' = [runTx EXCEPT ![r] = NoRunTx]
    /\ runResult' = [runResult EXCEPT ![r] = "none"]
    /\ UNCHANGED <<accountNonce, pool, proofRecord>>
    /\ UNCHANGED <<chainVars, runVars, waitVars, mainVars, checkVars>>

\* ====================================================================
\* The lifecycle specification
\* ====================================================================

Init ==
    /\ variant \in {"legacy", "fp"}
    /\ period \in 1..MaxPeriod
    /\ l2Receipt \in {"success", "failed", "notfound"}
    /\ l1Time = WithdrawalTime + 1
    /\ oracleLatest = 0
    /\ games = << >>
    /\ provenLegacy = NoProof
    /\ provenFP = [s \in Submitters |-> NoProof]
    /\ finalizedWithdrawals = {}
    /\ pc = "idle"
    /\ from = "S1"
    /\ proofTime = 0
    /\ tx = NoTx
    /\ txStatus = "none"
    /\ result = "none"
    /\ clock = 0
    /\ deadline = NoTime
    /\ cancelled = FALSE
    /\ minedAt = NoTime
    /\ lastPoll = "none"
    /\ notFound = 0
    /\ MainAtRest
    /\ PairAtRest
    /\ CheckAtRest

Next ==
    \/ Tick
    \/ ProposeOutput
    \/ CreateGame
    \/ ResolveGame
    \/ MineTx
    \/ StartRun
    \/ Exit
    \/ StepIsProofFinalized
    \/ StepCheckIfProvable
    \/ StepGetProvenWithdrawalTime
    \/ StepProveWithdrawal
    \/ StepFinalizeWithdrawal
    \/ StepWaitForConfirmation

Spec == Init /\ [][Next]_vars

\* ====================================================================
\* The legacy flow run again and again
\* ====================================================================

InitLegacy ==
    /\ Init
    /\ variant = "legacy"

NextLegacy ==
    \/ Tick
    \/ ProposeOutput
    \/ MineTx
    \/ StartRun
    \/ Exit
    \/ StepIsProofFinalized
    \/ StepCheckIfProvable
    \/ StepGetProvenWithdrawalTime
    \/ StepProveWithdrawal
    \/ StepFinalizeWithdrawal
    \/ StepWaitForConfirmation

\* The call of step A does not fail in the client.
Works(A) == A /\ result' \notin ClientErrors

\* The tool is started again whenever it has exited and every call
\* returns.  The oracle goes on proposing, L1 time advances and a submitted
\* transaction is mined while its run waits: each of these happens in the
\* end if it is possible again and again.  Calls may fail in the client, a
\* wait may time out, but not every time.
LegacyFairness ==
    /\ WF_vars(StartRun)
    /\ WF_vars(Exit)
    /\ WF_vars(StepWaitForConfirmation)
    /\ SF_vars(Tick)
    /\ SF_vars(ProposeOutput)
    /\ SF_vars(MineTx)
    /\ SF_vars(Works(StepIsProofFinalized))
    /\ SF_vars(Works(StepCheckIfProvable))
    /\ SF_vars(Works(StepGetProvenWithdrawalTime))
    /\ SF_vars(Works(StepProveWithdrawal))
    /\ SF_vars(Works(StepFinalizeWithdrawal))

SpecLegacy == InitLegacy /\ [][NextLegacy]_vars /\ LegacyFairness

\* ====================================================================
\* The confirmation wait on its own
\* ====================================================================

\* The contexts a wait is called with: context.Background() (no deadline),
\* the five-minute deadline of the operations, and short deadlines.
Deadlines == (1..MaxDeadline) \cup {ConfirmationTimeout, NoTime}

\* The node gets the receipt of the transaction.  While the loop sleeps
\* this happens at some instant before the select statement wakes up.
ReceiptAppears ==
    /\ pc \in {"poll", "sleep"}
    /\ txStatus = "pending"
    /\ txStatus' \in {"success", "failed"}
    /\ \E t \in clock..(clock + PollInterval) :
          /\ pc = "poll" => t = clock
          /\ deadline # NoTime => t <= deadline
          /\ minedAt' = t
    /\ UNCHANGED <<pc, from, proofTime, tx, result>>
    /\ UNCHANGED <<clock, deadline, cancelled, lastPoll, notFound>>
    /\ UNCHANGED <<chainVars, restVars>>

\* The caller cancels ctx.
Cancel ==
    /\ pc \in {"poll", "sleep"}
    /\ ~CtxDone
    /\ cancelled' = TRUE
    /\ UNCHANGED <<clock, deadline, minedAt, lastPoll, notFound>>
    /\ UNCHANGED <<chainVars, runVars, restVars>>

InitWait ==
    /\ variant = "legacy"
    /\ period = 1
    /\ l2Receipt = "success"
    /\ l1Time = WithdrawalTime + 1
    /\ oracleLatest = WithdrawalBlock
    /\ games = << >>
    /\ provenLegacy = NoProof
    /\ provenFP = [s \in Submitters |-> NoProof]
    /\ finalizedWithdrawals = {}
    /\ pc = "poll"
    /\ from = "S1"
    /\ proofTime = 0
    /\ tx = [kind |-> "prove", from |-> "S1", anchor |-> WithdrawalBlock,
             sentAt |-> l1Time]
    /\ txStatus = "pending"
    /\ result = "none"
    /\ clock = 0
    /\ deadline \in Deadlines
    /\ cancelled = FALSE
    /\ minedAt = NoTime
    /\ lastPoll = "none"
    /\ notFound = 0
    /\ MainAtRest
    /\ PairAtRest
    /\ CheckAtRest

NextWait ==
    \/ Poll
    \/ Select
    \/ ReceiptAppears
    \/ Cancel

SpecWait == InitWait /\ [][NextWait]_vars

\* An operation that would hand its own context, which has no deadline,
\* to the wait: return waitForConfirmation(ctx, l1, tx.Hash()).
ctxWithoutTimeout == NoTime

\* ctxWithTimeout, cancel := context.WithTimeout(w.Ctx, 5*time.Minute): the
\* deadline of the context ProveWithdrawal and FinalizeWithdrawal wait
\* under, counted from the start of the wait.
ctxWithTimeout == ConfirmationTimeout

\* The wait as the operations start it.
InitOperationWait ==
    /\ InitWait
    /\ deadline = ctxWithTimeout

\* The loop keeps running: a lookup that can be made is made, and a select
\* with a ready case takes one.  Nothing is assumed of the node or of the
\* caller: the receipt may never appear and the context may never be
\* cancelled.
SpecOperationWait ==
    /\ InitOperationWait
    /\ [][NextWait]_vars
    /\ WF_vars(Poll)
    /\ WF_vars(Select)

\* ====================================================================
\* main on its own: from the command line to processWithdrawal
\* ====================================================================

InitMain ==
    /\ variant = "legacy"
    /\ period = 1
    /\ l2Receipt = "success"
    /\ l1Time = WithdrawalTime + 1
    /\ oracleLatest = 0
    /\ games = << >>
    /\ provenLegacy = NoProof
    /\ provenFP = [s \in Submitters |-> NoProof]
    /\ finalizedWithdrawals = {}
    /\ pc = "idle"
    /\ from = "S1"
    /\ proofTime = 0
    /\ tx = NoTx
    /\ txStatus = "none"
    /\ result = "none"
    /\ clock = 0
    /\ deadline = NoTime
    /\ cancelled = FALSE
    /\ minedAt = NoTime
    /\ lastPoll = "none"
    /\ notFound = 0
    /\ flags \in FlagSets
    /\ n = NoNetwork
    /\ mainPc = "networks"
    /\ crit = "none"
    /\ dialed = {}
    /\ helper = NoHelper
    /\ PairAtRest
    /\ CheckAtRest

NextMain ==
    \/ StepLookupNetwork
    \/ StepValidateNetworkFaultProofs
    \/ StepValidateNetworkFlags
    \/ StepValidateEssentialFlags
    \/ StepValidateSignerOptions
    \/ StepCreateSigner
    \/ StepCreateWithdrawHelper

SpecMain == InitMain /\ [][NextMain]_vars

\* ====================================================================
\* Two concurrent runs on their own
\* ====================================================================

InitPair ==
    /\ variant = "legacy"
    /\ period = 1
    /\ l2Receipt = "success"
    /\ l1Time = WithdrawalTime + 1
    /\ oracleLatest = WithdrawalBlock
    /\ games = << >>
    /\ provenLegacy = NoProof
    /\ provenFP = [s \in Submitters |-> NoProof]
    /\ finalizedWithdrawals = {}
    /\ pc = "idle"
    /\ from = "S1"
    /\ proofTime = 0
    /\ tx = NoTx
    /\ txStatus = "none"
    /\ result = "none"
    /\ clock = 0
    /\ deadline = NoTime
    /\ cancelled = FALSE
    /\ minedAt = NoTime
    /\ lastPoll = "none"
    /\ notFound = 0
    /\ MainAtRest
    /\ PairAtRest
    /\ CheckAtRest

NextPair ==
    \/ \E r \in Runs : RunCreateWithdrawHelper(r)
    \/ \E r \in Runs : RunGetProvenWithdrawalTime(r)
    \/ \E r \in Runs : RunSubmit(r)
    \/ \E r \in Runs : RunWaitForConfirmation(r)
    \/ \E r \in Runs : RunExit(r)
    \/ MinePending

SpecPair == InitPair /\ [][NextPair]_vars

\* ====================================================================
\* The legacy provability check on its own
\* ====================================================================

\* A run at its provability check: any latest output, any receipt of the
\* L2 transaction, and the oracle's submission interval and block time.
InitCheck ==
    /\ variant = "legacy"
    /\ period = 1
    /\ l2Receipt \in {"success", "failed", "notfound"}
    /\ l1Time = MaxTime
    /\ oracleLatest \in 0..MaxBlock
    /\ games = << >>
    /\ provenLegacy = NoProof
    /\ provenFP = [s \in Submitters |-> NoProof]
    /\ finalizedWithdrawals = {}
    /\ pc = "CheckIfProvable"
    /\ from = "S1"
    /\ proofTime = 0
    /\ tx = NoTx
    /\ txStatus = "none"
    /\ result = "none"
    /\ clock = 0
    /\ deadline = NoTime
    /\ cancelled = FALSE
    /\ minedAt = NoTime
    /\ lastPoll = "none"
    /\ notFound = 0
    /\ MainAtRest
    /\ PairAtRest
    /\ submissionInterval \in SubmissionIntervals
    /\ l2BlockTime \in 1..MaxL2BlockTime
    /\ err = NoErr

NextCheck == WithdrawerCheckIfProvable

SpecCheck == InitCheck /\ [][NextCheck]_vars

\* ====================================================================
\* Properties of the lifecycle (Spec)
\* ====================================================================

\* The Finalization Record of the withdrawal exists on L1.
Finalized == FinalizedWithdrawals(WithdrawalHash(L2TxHash))

\* The run submits a transaction in this step.
Submits(kind) == pc # "WaitForConfirmation" /\ pc' = "WaitForConfirmation" /\ tx'.kind = kind

\* C1: once the Finalization Record of the withdrawal (keyed by the
\* withdrawal hash) is set, every run's finalization query answers true:
\* the run reports "Withdrawal already finalized" (or the query itself
\* fails), and the run submits no transaction.
C1_FinalizedRunReportsAndStops ==
    [][ /\ ( (pc = "IsProofFinalized" /\ pc' # pc /\ Finalized)
              => result' \in {"AlreadyFinalized", "ErrFinalizationStatus"} )
        /\ ( Finalized => (~Submits("prove") /\ ~Submits("finalize")) ) ]_vars

\* The L2 block covered by the anchor transaction t was built against.
AnchorBlock(t) == IF variant = "legacy" THEN t.anchor ELSE games[t.anchor].l2Block

\* C2: in the legacy flow, while the L1 head time is below T + P (T the
\* timestamp of the Proof Record, P the finalization period) no run submits
\* a transaction for the proven withdrawal.
C2_NoFinalizeBeforeTimeLock ==
    (variant = "legacy" /\ tx.kind = "finalize")
        => tx.sentAt >= provenLegacy.timestamp + period

\* C3: in the legacy flow, when the L1 head time has reached T + P (T the
\* timestamp of the Proof Record, P the period; the boundary included) and
\* the latest output covers the withdrawal's block, FinalizeWithdrawal does
\* not report that the period has not elapsed: it submits the finalize
\* transaction, unless a client call fails.
C3_TimeLockRelease ==
    [][ ( /\ variant = "legacy"
          /\ pc = "FinalizeWithdrawal" /\ pc' # pc
          /\ provenLegacy.timestamp # 0
          /\ l1Time >= provenLegacy.timestamp + period
          /\ oracleLatest >= WithdrawalBlock )
        => (Submits("finalize") \/ result' \in ClientErrors) ]_vars

\* A finalize was submitted exactly at the boundary now = T + P.
C3_Witness ==
    /\ variant = "legacy"
    /\ tx.kind = "finalize"
    /\ provenLegacy.timestamp # 0
    /\ tx.sentAt = provenLegacy.timestamp + period

\* C4: in both variants a prove transaction is only ever submitted against
\* an anchor covering an L2 block A >= W, and a run that finds A < W at
\* its provability check ends there with the not-provable-yet error.
C4_AnchorCoverageGate ==
    [][ /\ ( Submits("prove") => (AnchorBlock(tx') >= WithdrawalBlock) )
        /\ ( ( /\ pc = "CheckIfProvable"
                /\ pc' # pc
                /\ l2Receipt = "success"
                /\ (variant = "fp" => HasGames)
                /\ (IF variant = "legacy" THEN oracleLatest ELSE LatestGameBlock)
                      < WithdrawalBlock )
              => result' \in {"NotProvableYet", "ErrChainRead"} ) ]_vars

\* C5: with fault proofs a run reads the Proof Record under its own
\* Opts.From only: where its own record is empty it reads timestamp zero and
\* takes the prove path whoever else has proven, and it submits a finalize
\* only when the portal's CheckWithdrawal passes for its own address.
C5_SubmitterBinding ==
    [][ variant = "fp" =>
        ( /\ ( (pc = "GetProvenWithdrawalTime" /\ pc' \notin {pc, "done"})
                => ( /\ proofTime' = provenFP[from].timestamp
                     /\ (provenFP[from].timestamp = 0 => pc' = "ProveWithdrawal") ) )
          /\ ( Submits("finalize")
                => ( /\ provenFP[from].timestamp # 0
                     /\ CheckWithdrawal(WithdrawalHash(L2TxHash), from) ) ) ) ]_vars

\* A run under one submitter has read timestamp zero although the other
\* submitter's Proof Record exists.
C5_Witness ==
    /\ variant = "fp"
    /\ pc = "ProveWithdrawal"
    /\ proofTime = 0
    /\ \E s \in Submitters \ {from} : provenFP[s].timestamp # 0

\* C6: in the legacy flow a run under any address reads the Proof Record
\* whoever wrote it: once the withdrawal is proven a run reads the non-zero
\* timestamp, takes the finalize path, and submits no second prove.
C6_LegacySubmitterIndependent ==
    [][ (variant = "legacy" /\ provenLegacy.timestamp # 0) =>
        ( /\ ( (pc = "GetProvenWithdrawalTime" /\ pc' \notin {pc, "done"})
                => ( /\ proofTime' = provenLegacy.timestamp
                     /\ pc' = "FinalizeWithdrawal" ) )
          /\ ~Submits("prove") ) ]_vars

\* A run under another address than the prover's is on the finalize path.
C6_Witness ==
    /\ variant = "legacy"
    /\ provenLegacy.timestamp # 0
    /\ provenLegacy.prover # from
    /\ pc = "FinalizeWithdrawal"
    /\ proofTime = provenLegacy.timestamp

\* ====================================================================
\* Properties of the confirmation wait (SpecWait)
\* ====================================================================

\* The wait has returned without a lookup failure and without cancellation.
ReturnedUndisturbed == pc = "returned" /\ ~cancelled /\ lastPoll # "error"

\* What the wait returns is among the outcomes the lifecycle allows for it.
AwaitOutcomesCoverWait ==
    (pc = "returned" /\ ~cancelled) => result \in AwaitOutcomes

C8_TimeoutNotBeforeDeadline ==
    (pc = "returned" /\ txStatus = "pending")
    => /\ result # "Confirmed"
       /\ (result \notin {"ErrLookup", "Canceled"}
             => ( /\ result = "DeadlineExceeded"
                  /\ deadline # NoTime
                  /\ clock >= deadline ))

\* The wait of an operation timed out five minutes after it began.
C8_Witness ==
    /\ pc = "returned"
    /\ txStatus = "pending"
    /\ deadline = ConfirmationTimeout
    /\ result = "DeadlineExceeded"
    /\ clock = ConfirmationTimeout

\* C9: a lookup that reports "not found" does not end the wait: the loop
\* goes to sleep, a sleeping loop returns only with the context's error,
\* and where the context is neither cancelled nor due within the poll
\* interval the loop polls again.
C9_NotFoundKeepsPolling ==
    [][ /\ ( (pc = "poll" /\ pc' # pc /\ lastPoll' = "notfound")
              => pc' = "sleep" )
        /\ ( (pc = "sleep" /\ pc' = "returned")
              => ( /\ result' \in {"Canceled", "DeadlineExceeded"}
                   /\ (cancelled \/ (deadline # NoTime /\ clock' >= deadline)) ) )
        /\ ( ( /\ pc = "sleep"
                /\ pc' # pc
                /\ ~cancelled
                /\ (deadline = NoTime \/ clock + PollInterval < deadline) )
              => (pc' = "poll" /\ clock' = clock + PollInterval) ) ]_vars

\* The loop polls again after three consecutive "not found" results.
C9_Witness ==
    /\ pc = "poll"
    /\ notFound >= 3
    /\ lastPoll = "notfound"
    /\ ~CtxDone

\* C10: a receipt with success status ends the wait with success, one with
\* failure status with the reverted error, and a lookup error other than
\* "not found" ends it with that error, no further lookup being made.
C10_PollResultClassified ==
    /\ (lastPoll = "success" => (pc = "returned" /\ result = "Confirmed"))
    /\ (lastPoll = "failed" => (pc = "returned" /\ result = "Reverted"))
    /\ (lastPoll = "error" => (pc = "returned" /\ result = "ErrLookup"))

\* A lookup failed after some "not found" results and the wait returned.
C10_Witness ==
    /\ pc = "returned"
    /\ lastPoll = "error"
    /\ result = "ErrLookup"
    /\ notFound >= 1

\* C11: a wait ended by its context returns the cancellation error exactly
\* when the caller cancelled and the deadline error exactly when the
\* deadline passed uncancelled, and neither is the error returned for a
\* receipt with failure status.
C11_ContextErrorsDistinguished ==
    pc = "returned" =>
      /\ (result = "Canceled" => cancelled)
      /\ (result = "DeadlineExceeded"
            => (~cancelled /\ deadline # NoTime /\ clock >= deadline))
      /\ ((cancelled /\ lastPoll \in {"notfound", "ctxError"}) => result = "Canceled")
      /\ (result = "Reverted" <=> lastPoll = "failed")

\* The caller cancelled a wait that had polled in vain, before its deadline.
C11_Witness ==
    /\ pc = "returned"
    /\ result = "Canceled"
    /\ notFound >= 1
    /\ deadline # NoTime
    /\ clock < deadline

\* C12: when the receipt of the L2 withdrawal transaction reports failure
\* status, the provability check of either variant ends the run with the
\* unsuccessful-receipt error (or a client failure), and no run submits an
\* L1 transaction.
C12_FailedReceiptStopsRun ==
    [][ l2Receipt = "failed" =>
        ( /\ ~Submits("prove")
          /\ ~Submits("finalize")
          /\ ( (pc = "CheckIfProvable" /\ pc' # pc)
                => (pc' = "done" /\ result' \in {"ReceiptFailed", "ErrChainRead"}) ) ) ]_vars

\* A run ended on the failed receipt.
C12_Witness ==
    /\ l2Receipt = "failed"
    /\ pc = "done"
    /\ result = "ReceiptFailed"
    /\ tx.kind = "none"

\* The L2 block of the latest anchor: the oracle's latest output, or the
\* most recently created dispute game.
LatestAnchorBlock == IF variant = "legacy" THEN oracleLatest ELSE LatestGameBlock

\* The provability check can read the withdrawal's block and an anchor.
AnchorReadable == l2Receipt = "success" /\ (variant = "fp" => HasGames)

\* C13: in both variants the provability check returns the not-provable-yet
\* error exactly when the L2 block of the latest anchor is strictly below
\* the withdrawal's; with an anchor at or past that block it returns no
\* error and the run goes on to the proof query (client failures apart).
C13_NotProvableExactlyBelow ==
    [][ (pc = "CheckIfProvable" /\ pc' # pc /\ AnchorReadable /\ result' # "ErrChainRead")
        => ( /\ (result' = "NotProvableYet" <=> LatestAnchorBlock < WithdrawalBlock)
             /\ (LatestAnchorBlock >= WithdrawalBlock
                   => (pc' = "GetProvenWithdrawalTime" /\ result' = "none")) ) ]_vars

\* A run passed the check with the latest output exactly at the
\* withdrawal's block (the oracle never goes back).
C13_Witness ==
    /\ variant = "legacy"
    /\ pc = "GetProvenWithdrawalTime"
    /\ oracleLatest = WithdrawalBlock

\* Some dispute game, not necessarily the latest, is at or past the
\* withdrawal's block.
SomeGameCovers == \E i \in 1..Len(games) : games[i].l2Block >= WithdrawalBlock

\* C14: with fault proofs a run stops with the not-provable-yet error only
\* if no dispute game at all is at or past the withdrawal's block; one
\* covering game is enough, also when the most recent game is lower.
C14_AnyCoveringGameSuffices ==
    [][ (variant = "fp" /\ pc = "CheckIfProvable" /\ pc' # pc /\ SomeGameCovers)
        => result' # "NotProvableYet" ]_vars

\* C15: a run that is past the finalization and provability checks takes
\* the prove path exactly when the proof timestamp it read is zero and the
\* finalize path exactly when it is non-zero; the path is chosen once, a
\* run never moves from one path to the other, and it submits at most the
\* one transaction of its path.
C15_NextActionByProofTime ==
    [][ /\ ( (pc = "GetProvenWithdrawalTime" /\ pc' \notin {pc, "done"})
              => ( /\ proofTime' = GetProvenWithdrawalTime
                   /\ (pc' = "ProveWithdrawal" <=> proofTime' = 0)
                   /\ (pc' = "FinalizeWithdrawal" <=> proofTime' # 0) ) )
        /\ ( (pc' \in {"ProveWithdrawal", "FinalizeWithdrawal"} /\ pc' # pc)
              => pc = "GetProvenWithdrawalTime" )
        /\ (Submits("prove") => (pc = "ProveWithdrawal" /\ proofTime = 0))
        /\ (Submits("finalize") => (pc = "FinalizeWithdrawal" /\ proofTime # 0))
        /\ ( (Submits("prove") \/ Submits("finalize")) => tx.kind = "none" ) ]_vars

\* A run read a non-zero proof timestamp and is waiting for its finalize
\* transaction.
C15_Witness ==
    /\ pc = "WaitForConfirmation"
    /\ tx.kind = "finalize"
    /\ proofTime # 0

\* The proof record the run's finalize step is about: the withdrawal's
\* (legacy) or the one of the run's own address (fault proofs).
OwnProof == IF variant = "legacy" THEN provenLegacy ELSE provenFP[from]

\* The withdrawal is proven and the time-lock that started with the proof
\* has not elapsed.
TimeLockPending == OwnProof.timestamp # 0 /\ l1Time <= OwnProof.timestamp + period

\* C16: in both variants a run that finds the withdrawal already finalized,
\* or proven with the time-lock not yet elapsed, ends with exit status zero
\* and without submitting a transaction (client failures apart).
C16_BenignOutcomesExitZero ==
    [][ /\ ( (pc = "IsProofFinalized" /\ pc' # pc /\ Finalized
                /\ result' \notin ClientErrors)
              => (pc' = "done" /\ ExitStatus(result') = 0 /\ tx'.kind = "none") )
        /\ ( (pc = "FinalizeWithdrawal" /\ pc' # pc /\ l2Receipt = "success"
                /\ ~Finalized /\ TimeLockPending /\ result' \notin ClientErrors)
              => (pc' = "done" /\ ExitStatus(result') = 0 /\ tx'.kind = "none") ) ]_vars

\* C17: with fault proofs FinalizeWithdrawal asks the portal's
\* CheckWithdrawal for the withdrawal hash and the run's own address before
\* it builds the transaction; when the portal rejects, the operation
\* returns that error and no finalize transaction is submitted.
C17_RejectedCheckSubmitsNothing ==
    [][ ( /\ variant = "fp"
          /\ pc = "FinalizeWithdrawal"
          /\ pc' # pc
          /\ ~CheckWithdrawal(WithdrawalHash(L2TxHash), from) )
        => ( /\ pc' = "done"
             /\ result' \in {"NotFinalizable", "ErrChainRead"}
             /\ ExitStatus(result') # 0
             /\ tx' = NoTx
             /\ UNCHANGED chainVars ) ]_vars

\* A fault-proof run with a proof of its own ended at the portal's check.
C17_Witness ==
    /\ variant = "fp"
    /\ pc = "done"
    /\ result = "NotFinalizable"
    /\ provenFP[from].timestamp # 0
    /\ tx = NoTx

\* The errors WaitForConfirmation can return.
WaitErrors == {"Reverted", "DeadlineExceeded", "ErrLookup"}

\* C18: when the wait for a submitted prove or finalize transaction ends
\* (reverted receipt, timeout, lookup error or success) the run ends with
\* it: a reverted receipt or a timeout is an error with a non-zero exit
\* status, the run keeps the one transaction it submitted, submits no
\* other, and after the run has ended nothing follows but the exit.
C18_NoRetryAfterFailure ==
    [][ /\ ( (pc = "WaitForConfirmation" /\ pc' # pc)
              => ( /\ pc' = "done"
                   /\ tx' = tx
                   /\ (result' = "Confirmed" <=> result' \notin WaitErrors)
                   /\ (result' \in WaitErrors => ExitStatus(result') # 0)
                   /\ (result' = "Reverted" => txStatus = "failed") ) )
        /\ ( (Submits("prove") \/ Submits("finalize")) => tx = NoTx )
        /\ ( (pc = "done" /\ pc' # pc) => (pc' = "idle" /\ UNCHANGED chainVars) ) ]_vars

\* A run ended with the error for its reverted prove transaction.
C18_Witness ==
    /\ pc = "done"
    /\ result = "Reverted"
    /\ tx.kind = "prove"
    /\ txStatus = "failed"

\* The positions of a run before it has submitted anything. The
\* Finalization Record is only ever written while the run that finalizes
\* waits for its receipt, so a run at one of these positions with the
\* record set is a later run.
Classifying ==
    pc \in {"IsProofFinalized", "CheckIfProvable", "GetProvenWithdrawalTime",
            "ProveWithdrawal", "FinalizeWithdrawal"}

\* C19: once the withdrawal is finalized, a later run for it is never
\* classified lower (not yet provable; provable and unproven, the prove
\* path; proven, the finalize path) and submits no prove or finalize
\* transaction, whatever anchors, proof records and clock do.
C19_FinalizedIsMonotonic ==
    [][ (Finalized /\ Classifying /\ pc' # pc)
        => ( /\ pc' \notin {"ProveWithdrawal", "FinalizeWithdrawal", "WaitForConfirmation"}
             /\ result' # "NotProvableYet" ) ]_vars

\* The classification calls of a run.
Reading == pc \in {"IsProofFinalized", "CheckIfProvable", "GetProvenWithdrawalTime"}

\* C20: IsProofFinalized, CheckIfProvable and the proof-record lookup write
\* nothing (chain state unchanged, no transaction sent), and what each
\* returns is a function of the chain state and the run's address alone,
\* so that two classifications over the same chain state agree (failures of
\* the client apart).
C20_ClassificationReadOnlyDeterministic ==
    [][ (Reading /\ pc' # pc)
        => ( /\ UNCHANGED chainVars
             /\ tx' = NoTx
             /\ txStatus' = "none"
             /\ from' = from
             /\ ( result' \notin ClientErrors
                   => ( /\ ( pc = "IsProofFinalized"
                               => IF IsProofFinalized
                                  THEN pc' = "done" /\ result' = "AlreadyFinalized"
                                  ELSE pc' = "CheckIfProvable" /\ result' = "none" )
                        /\ ( pc = "CheckIfProvable"
                               => IF CheckIfProvable = "none"
                                  THEN pc' = "GetProvenWithdrawalTime" /\ result' = "none"
                                  ELSE pc' = "done" /\ result' = CheckIfProvable )
                        /\ ( pc = "GetProvenWithdrawalTime"
                               => ( /\ proofTime' = GetProvenWithdrawalTime
                                    /\ pc' = NextAction(GetProvenWithdrawalTime)
                                    /\ result' = "none" ) ) ) ) ) ]_vars

\* A fault-proof run went through the three calls (a game covers the
\* withdrawal, no proof under the run's address) and nothing is sent.
C20_Witness ==
    /\ variant = "fp"
    /\ pc = "ProveWithdrawal"
    /\ HasGames
    /\ provenFP[from].timestamp = 0
    /\ tx = NoTx

\* ====================================================================
\* Properties of main (SpecMain)
\* ====================================================================

\* The custom-network flags the selected variant requires.
OverrideFlags(f) ==
    IF f.faultProofs
    THEN {f.l2Rpc, f.dgfAddress, f.portalAddress}
    ELSE {f.l2Rpc, f.portalAddress, f.l2OOAddress}

\* Some but not all of the required custom-network flags are given.
PartialOverride(f) == "" \in OverrideFlags(f) /\ OverrideFlags(f) # {""}

\* A command line with an input or configuration error.
BadInput(f) ==
    \/ f.network \notin DOMAIN networks
    \/ PartialOverride(f)
    \/ f.rpc = ""
    \/ f.withdrawal = ""
    \/ SignerOptions(f.privateKey, f.ledger, f.mnemonic) # 1

\* The messages of failures that are not input errors.
RuntimeCrits == {"Error creating signer", "Error creating withdrawer"}

\* main has ended, one way or the other.
MainEnded == mainPc \in {"exited", "processWithdrawal", "off"}

\* C21: with an unknown network, a partial custom override, a missing
\* --rpc or --withdrawal, or not exactly one signing method, main never
\* gets to create the signer or the helper: it dials no client, submits
\* nothing, always has a next step until it has exited, and exits through
\* log.Crit (status 1) with the message of a validation.
C21_InputErrorsFatalBeforeChain ==
    BadInput(flags) =>
      /\ dialed = {}
      /\ helper = NoHelper
      /\ tx = NoTx
      /\ mainPc \notin {"CreateSigner", "CreateWithdrawHelper", "processWithdrawal"}
      /\ (mainPc = "exited" => (crit # "none" /\ crit \notin RuntimeCrits))
      /\ (~MainEnded => ENABLED NextMain)

\* main exited at validateSignerOptions on a command line that gives both a
\* private key and a mnemonic.
C21_Witness ==
    /\ mainPc = "exited"
    /\ flags.privateKey # ""
    /\ flags.mnemonic # ""
    /\ ~flags.ledger
    /\ crit = "One (and only one) of --private-key, --ledger, --mnemonic must be set"
    /\ dialed = {}

\* A command line that names a predefined network, gives no custom-network
\* flag, sets --fault-proofs as the network requires, and gives the L1 RPC,
\* the withdrawal and exactly one signing method.
PresetOnly(f) ==
    /\ f.network \in DOMAIN networks
    /\ f.faultProofs = networks[f.network].faultProofs
    /\ f.l2Rpc = ""
    /\ f.portalAddress = ""
    /\ f.l2OOAddress = ""
    /\ f.dgfAddress = ""
    /\ f.rpc # ""
    /\ f.withdrawal # ""
    /\ SignerOptions(f.privateKey, f.ledger, f.mnemonic) = 1

\* C22: a run on a predefined network without custom-network flags passes
\* validation (it can only fail later, creating the signer or the helper)
\* and goes on with the L2 endpoint and the contract addresses of the
\* predefined network unchanged.
C22_PresetPassesValidation ==
    PresetOnly(flags) =>
      /\ (mainPc = "exited" => crit \in RuntimeCrits)
      /\ ( mainPc \in {"validateEssentialFlags", "validateSignerOptions",
                        "CreateSigner", "CreateWithdrawHelper", "processWithdrawal"}
            => n = networks[flags.network] )
      /\ (mainPc = "processWithdrawal" => helper = HelperFor(networks[flags.network]))

\* --fault-proofs does not agree with the variant of the selected network.
VariantMismatch(f) ==
    /\ f.network \in DOMAIN networks
    /\ f.faultProofs # networks[f.network].faultProofs

\* The messages validateNetworkFaultProofs exits with.
VariantCrits ==
    {"Fault proofs are not supported on this network",
     "Fault proofs are required on this network, please provide the --fault-proofs flag"}

C24_NonceDiscipline ==
    [][ \A r \in Runs :
          /\ ( (runPc[r] = "idle" /\ runPc'[r] # "idle")
                => runOpts'[r] = PendingNonceAt )
          /\ ( (runPc[r] # "idle" /\ runPc'[r] # "idle")
                => runOpts'[r] = runOpts[r] )
          /\ ( (runTx[r].kind = "none" /\ runTx'[r].kind # "none")
                => runTx'[r].nonce = runOpts[r] )
          /\ ( runTx[r].kind # "none"
                => ( \/ runTx'[r] = NoRunTx /\ runPc'[r] = "idle"
                     \/ /\ runTx'[r].kind = runTx[r].kind
                        /\ runTx'[r].nonce = runTx[r].nonce ) ) ]_vars

\* A run waits for a transaction that carries pending nonce 1, read after
\* an earlier transaction of the address.
C24_Witness ==
    \E r \in Runs :
        /\ runPc[r] = "WaitForConfirmation"
        /\ runTx[r].kind # "none"
        /\ runTx[r].nonce = 1
        /\ runOpts[r] = 1

\* Run q has read its nonce and submitted nothing yet.
Unsubmitted(q) ==
    runPc[q] \in {"GetProvenWithdrawalTime", "ProveWithdrawal", "FinalizeWithdrawal"}

\* C29: two runs under one address are not coordinated.  A run that starts
\* while the other has not submitted yet reads the very nonce the other
\* holds; a run reads a zero proof timestamp and takes the prove path as
\* long as no prove transaction is mined, whatever the other run has
\* pending; and it submits with the nonce it holds also when the other
\* run's transaction carries that nonce.
C29_RunsNotCoordinated ==
    [][ \A r, q \in Runs :
          r # q =>
            /\ ( ( /\ runPc[r] = "idle"
                    /\ runPc'[r] # "idle"
                    /\ Unsubmitted(q)
                    /\ runOpts[q] = PendingNonceAt )
                  => runOpts'[r] = runOpts[q] )
            /\ ( ( /\ runPc[r] = "GetProvenWithdrawalTime"
                    /\ runPc'[r] # runPc[r]
                    /\ ~proofRecord )
                  => (runPc'[r] = "ProveWithdrawal" /\ ~runProofTime'[r]) )
            /\ ( ( /\ runPc[r] = "ProveWithdrawal"
                    /\ runPc'[r] = "WaitForConfirmation" )
                  => (runTx'[r].kind = "prove" /\ runTx'[r].nonce = runOpts[r]) ) ]_vars

\* Both runs read a zero proof timestamp and the same pending nonce, and
\* both have submitted a prove transaction with that nonce.
C29_Witness ==
    /\ runTx["R1"].kind = "prove"
    /\ runTx["R2"].kind = "prove"
    /\ runTx["R1"].nonce = runTx["R2"].nonce
    /\ runOpts["R1"] = runOpts["R2"]
    /\ ~runProofTime["R1"]
    /\ ~runProofTime["R2"]
    /\ runPc["R1"] = "WaitForConfirmation"
    /\ runPc["R2"] = "WaitForConfirmation"

\* ====================================================================
\* Further properties of the lifecycle (Spec)
\* ====================================================================

\* The errors for a state the withdrawal is in: not provable yet, L2
\* receipt missing or failed, not finalizable.
PreconditionErrors ==
    {"NotProvableYet", "NoLatestGame", "ReceiptNotFound", "ReceiptFailed", "NotFinalizable"}

\* C25: when CheckIfProvable fails (no covering anchor, L2 receipt missing
\* or failed) or the fault-proof CheckWithdrawal rejects, the run ends
\* there with that error (or a client error); a run that ends with such an
\* error has submitted no transaction and changes nothing on the chain, and
\* as long as a run has no transaction the proof and finalization records
\* stay as they are.
C25_PreconditionFailuresSubmitNothing ==
    [][ /\ ( (pc # "done" /\ pc' = "done" /\ result' \in PreconditionErrors)
              => (tx' = NoTx /\ txStatus' = "none" /\ UNCHANGED chainVars) )
        /\ ( (pc = "CheckIfProvable" /\ pc' # pc /\ CheckIfProvable # "none")
              => (pc' = "done" /\ result' \in PreconditionErrors \cup ClientErrors) )
        /\ ( ( /\ variant = "fp"
                /\ pc = "FinalizeWithdrawal"
                /\ pc' # pc
                /\ ~CheckWithdrawal(WithdrawalHash(L2TxHash), from) )
              => (pc' = "done" /\ result' \in PreconditionErrors \cup ClientErrors) )
        /\ ( (tx = NoTx /\ tx' = NoTx)
              => UNCHANGED <<provenLegacy, provenFP, finalizedWithdrawals>> ) ]_vars

\* A run ended at the provability check, nothing submitted.
C25_Witness ==
    /\ pc = "done"
    /\ result = "NotProvableYet"
    /\ l2Receipt = "success"
    /\ tx = NoTx
    /\ txStatus = "none"

\* The two conditions Withdrawer.FinalizeWithdrawal tests for: the latest
\* output is below the withdrawal's block, or the finalization period,
\* counted as the operation counts it, has not passed at the L1 head.
LegacyOwnChecksFail ==
    \/ oracleLatest < WithdrawalBlock
    \/ WithdrawalTime + period >= l1Time

\* C26: when, by its own checks, the latest output does not cover the
\* withdrawal's block or the finalization period has not elapsed, the
\* legacy FinalizeWithdrawal reports the condition and returns without an
\* error: no finalize transaction is built and L1 state is unchanged.
C26_LegacyGateWritesNothing ==
    [][ ( /\ variant = "legacy"
          /\ pc = "FinalizeWithdrawal"
          /\ pc' # pc
          /\ l2Receipt = "success"
          /\ LegacyOwnChecksFail
          /\ result' \notin ClientErrors )
        => ( /\ pc' = "done"
             /\ result' \in {"OutputNotPastWithdrawal", "PeriodNotElapsed"}
             /\ (result' = "OutputNotPastWithdrawal" <=> oracleLatest < WithdrawalBlock)
             /\ ExitStatus(result') = 0
             /\ tx' = NoTx
             /\ txStatus' = "none"
             /\ UNCHANGED chainVars ) ]_vars

\* A legacy run reported that the period has not elapsed and sent nothing.
C26_Witness ==
    /\ variant = "legacy"
    /\ pc = "done"
    /\ result = "PeriodNotElapsed"
    /\ WithdrawalTime + period >= l1Time
    /\ tx = NoTx

\* Submitter s holds a Proof Record whose dispute game was resolved
\* against the claim.
InvalidatedProof(s) ==
    /\ variant = "fp"
    /\ provenFP[s].timestamp # 0
    /\ games[provenFP[s].anchor].status = "CHALLENGER_WINS"

\* What every step of a run does while the proof of its address is
\* invalidated: the proof query leads to the finalize path, the finalize
\* step ends at the portal's check, nothing is submitted and the record
\* stays.
StuckSteps ==
    /\ ( (pc = "GetProvenWithdrawalTime" /\ pc' # pc)
          => (pc' = "FinalizeWithdrawal" \/ result' \in ClientErrors) )
    /\ ( (pc = "FinalizeWithdrawal" /\ pc' # pc)
          => (pc' = "done" /\ result' \in {"NotFinalizable"} \cup ClientErrors) )
    /\ pc' # "ProveWithdrawal"
    /\ ~Submits("prove")
    /\ ~Submits("finalize")
    /\ provenFP' = provenFP

C28_CheckToUseAnchor ==
    [][ (pc \in {"GetProvenWithdrawalTime", "ProveWithdrawal"})
        => ( /\ ProveAnchor' = ProveAnchor
             /\ (Submits("prove") => tx'.anchor = ProveAnchor) ) ]_vars


\* C30: a confirmation wait started by ProveWithdrawal or FinalizeWithdrawal
\* runs under the five-minute deadline, so whatever the receipt does (never
\* found, found late, lookup errors) the wait returns, success or error,
\* no later than five minutes after it began.
C30_OperationWaitReturns ==
    (pc # "returned") ~> (pc = "returned" /\ result # "none" /\ clock <= ConfirmationTimeout)

\* The receipt never appeared and nobody cancelled: the wait ended at the
\* deadline with the context's error.
C30_Witness ==
    /\ deadline = ConfirmationTimeout
    /\ pc = "returned"
    /\ result = "DeadlineExceeded"
    /\ txStatus = "pending"
    /\ ~cancelled
    /\ clock = ConfirmationTimeout
    /\ notFound >= 1

\* C31: when the context is cancelled, or its deadline falls inside the
\* poll interval, while the loop sleeps between two lookups, the wait
\* returns the context's error there: at the time it was cancelled or at
\* the deadline, not at the end of the interval, and without another
\* receipt lookup.
C31_PromptCancellation ==
    [][ ( /\ pc = "sleep"
          /\ pc' # pc
          /\ (cancelled \/ (deadline # NoTime /\ deadline < clock + PollInterval)) )
        => ( /\ pc' = "returned"
             /\ result' = CtxErr
             /\ clock' = (IF cancelled THEN clock ELSE deadline)
             /\ clock' < clock + PollInterval
             /\ lastPoll' = lastPoll
             /\ notFound' = notFound ) ]_vars

\* The deadline fell in the middle of the third sleep: the wait returned at
\* the deadline, the last lookup being the one before the sleep.
C31_Witness ==
    /\ pc = "returned"
    /\ result = "DeadlineExceeded"
    /\ lastPoll = "notfound"
    /\ notFound >= 3
    /\ clock = deadline
    /\ deadline % PollInterval # 0

\* The errors of an operation before it has a transaction: the proof
\* parameters could not be generated, or the contract call that signs and
\* sends the transaction returned an error.
SubmissionErrors == {"ErrProofParameters", "ErrSubmit"}

\* C32: when the retrieval of the proof parameters fails, or the contract
\* call that builds and sends the prove or finalize transaction returns an
\* error, the operation returns that error and the run ends with a non-zero
\* status: no transaction is sent, no confirmation wait is started and the
\* chain state is left as it is; a wait is only ever started by an
\* operation that got its transaction.
C32_FailureBeforeSubmissionSubmitsNothing ==
    [][ /\ ( ( /\ pc \in {"ProveWithdrawal", "FinalizeWithdrawal"}
                /\ pc' # pc
                /\ result' \in SubmissionErrors )
              => ( /\ pc' = "done"
                   /\ tx' = NoTx
                   /\ txStatus' = "none"
                   /\ ExitStatus(result') # 0
                   /\ UNCHANGED chainVars ) )
        /\ ( (pc # "WaitForConfirmation" /\ pc' = "WaitForConfirmation")
              => ( /\ pc \in {"ProveWithdrawal", "FinalizeWithdrawal"}
                   /\ result' = "none"
                   /\ tx' # NoTx
                   /\ txStatus' = "pending" ) )
        /\ ( (pc = "done" /\ result \in SubmissionErrors)
              => UNCHANGED <<provenLegacy, provenFP, finalizedWithdrawals>> ) ]_vars

\* The finalize call of a run that had read its proof returned an error.
C32_Witness ==
    /\ pc = "done"
    /\ result = "ErrSubmit"
    /\ proofTime # 0
    /\ tx = NoTx
    /\ txStatus = "none"

\* C33: a run submits at most one L1 transaction.  A run that has a
\* transaction is waiting for its receipt or has ended, and keeps that one
\* transaction until the process exits; a run whose transaction is a prove
\* read a zero proof time and so never reaches FinalizeWithdrawal, and a run
\* whose transaction is a finalize read a non-zero one and so never was in
\* ProveWithdrawal.
C33_AtMostOneTransactionPerRun ==
    [][ /\ ( tx # NoTx
              => ( /\ pc \in {"WaitForConfirmation", "done"}
                   /\ ( \/ tx' = tx
                        \/ (pc = "done" /\ pc' = "idle" /\ tx' = NoTx) ) ) )
        /\ ( (pc = "WaitForConfirmation" /\ pc' # pc) => pc' = "done" )
        /\ ( tx.kind = "prove" => proofTime = 0 )
        /\ ( tx.kind = "finalize" => proofTime # 0 )
        /\ ( pc = "ProveWithdrawal" => (proofTime = 0 /\ pc' # "FinalizeWithdrawal") )
        /\ ( pc = "FinalizeWithdrawal" => (proofTime # 0 /\ pc' # "ProveWithdrawal") ) ]_vars

\* A fault-proof run ended after its prove was confirmed: it holds that one
\* transaction and the withdrawal is not finalized.
C33_Witness ==
    /\ variant = "fp"
    /\ pc = "done"
    /\ result = "Confirmed"
    /\ tx.kind = "prove"
    /\ provenFP[from].timestamp # 0
    /\ finalizedWithdrawals = {}

\* C34: a finalize transaction is submitted only by a run that went, in
\* this order, through the finalization query (answer: not finalized), the
\* provability check (passed) and the proof query (a non-zero timestamp of
\* the withdrawal's Proof Record; with fault proofs the record under the
\* run's own address).  Each call is reached from the one before it only,
\* nothing is sent or written before the operation itself, and the proof
\* that was read is still recorded when the finalize is submitted.
C34_FinalizeRequiresVisibleProof ==
    [][ /\ ( (pc' = "IsProofFinalized" /\ pc' # pc) => pc = "idle" )
        /\ ( (pc' = "CheckIfProvable" /\ pc' # pc)
              => (pc = "IsProofFinalized" /\ ~IsProofFinalized) )
        /\ ( (pc' = "GetProvenWithdrawalTime" /\ pc' # pc)
              => (pc = "CheckIfProvable" /\ CheckIfProvable = "none") )
        /\ ( (pc' = "FinalizeWithdrawal" /\ pc' # pc)
              => ( /\ pc = "GetProvenWithdrawalTime"
                   /\ proofTime' # 0
                   /\ proofTime' = OwnProof.timestamp ) )
        /\ ( Submits("finalize")
              => ( /\ pc = "FinalizeWithdrawal"
                   /\ proofTime # 0
                   /\ proofTime = OwnProof.timestamp ) )
        /\ ( Classifying
              => ( /\ tx = NoTx
                   /\ (pc' # pc => UNCHANGED chainVars) ) ) ]_vars

\* The second submitter, having proven under its own address, has its
\* finalize on the way.
C34_Witness ==
    /\ variant = "fp"
    /\ from = "S2"
    /\ pc = "WaitForConfirmation"
    /\ tx.kind = "finalize"
    /\ proofTime # 0
    /\ proofTime = provenFP["S2"].timestamp

\* C35: after a prove the run prints "successfully proven" and exits with
\* status zero only if WaitForConfirmation returned nil, which it does only
\* for a lookup that found the receipt with success status, made before the
\* five-minute deadline; with a reverted receipt, a timeout, a cancellation
\* or a lookup error the wait returns an error and the run exits non-zero.
C35_ProvenOnlyOnSuccessReceipt ==
    (pc = "returned" /\ tx.kind = "prove")
    => ( /\ result \in {"Confirmed", "Reverted", "DeadlineExceeded", "Canceled", "ErrLookup"}
         /\ (ExitStatus(result) = 0 <=> result = "Confirmed")
         /\ (result = "Confirmed" <=> lastPoll = "success")
         /\ ( result = "Confirmed"
               => ( /\ txStatus = "success"
                    /\ minedAt # NoTime
                    /\ minedAt <= clock
                    /\ clock < ConfirmationTimeout ) )
         /\ (lastPoll = "failed" => (txStatus = "failed" /\ result = "Reverted")) )

\* The receipt of the prove was found by the last lookup before the
\* deadline, after lookups that had not found it.
C35_Witness ==
    /\ pc = "returned"
    /\ tx.kind = "prove"
    /\ result = "Confirmed"
    /\ deadline = ConfirmationTimeout
    /\ clock = ConfirmationTimeout - PollInterval
    /\ notFound >= 1

\* The withdrawal has a Proof Record in the legacy portal.
LegacyProven == provenLegacy.timestamp # 0

\* C36: legacy flow, withdrawal with a successful L2 receipt.  While the
\* oracle goes on proposing, L1 time advances, submitted transactions get
\* mined and the tool is run again and again, the withdrawal gets proven,
\* and once proven (with the time-lock ending within the time the model
\* follows) it gets finalized.  The Proof Record is written once, by the
\* mined prove of a waiting run, and stays as written; the Finalization
\* Record is set once, after the proof, by the mined finalize of a waiting
\* run, and stays set.
C36_LegacyEndToEndProgress ==
    /\ ( (l2Receipt = "success") ~> LegacyProven )
    /\ ( (l2Receipt = "success" /\ LegacyProven /\ provenLegacy.timestamp + period < MaxTime)
           ~> Finalized )
    /\ [][ /\ ( LegacyProven => provenLegacy' = provenLegacy )
           /\ ( (~LegacyProven /\ LegacyProven')
                 => (pc = "WaitForConfirmation" /\ tx.kind = "prove" /\ ~Finalized') )
           /\ ( Finalized => Finalized' )
           /\ ( (~Finalized /\ Finalized')
                 => (pc = "WaitForConfirmation" /\ tx.kind = "finalize" /\ LegacyProven) ) ]_vars

\* A run ended with its finalize confirmed: the withdrawal is proven and
\* finalized.
C36_Witness ==
    /\ variant = "legacy"
    /\ pc = "done"
    /\ result = "Confirmed"
    /\ tx.kind = "finalize"
    /\ LegacyProven
    /\ Finalized

\* The seconds a printed duration stands for.
SecondsOf(d) == d.h * 3600 + d.m * 60 + d.s

\* C37: when the legacy CheckIfProvable fails because the latest output is
\* below the withdrawal's block, its error carries the L2 block number of
\* the latest output, the L2 block number of the withdrawal, and a wait
\* that reads as submission interval times L2 block time, in seconds; it
\* returns that error exactly in that case.
C37_NotProvableMessage ==
    /\ ( err.kind = "NotProvableYet"
          => ( /\ err.latest = oracleLatest
               /\ err.withdrawal = WithdrawalBlock
               /\ err.latest < err.withdrawal
               /\ err.every.m < 60
               /\ err.every.s < 60
               /\ SecondsOf(err.every) = submissionInterval * l2BlockTime ) )
    /\ ( (pc # "CheckIfProvable" /\ l2Receipt = "success" /\ err.kind # "ErrChainRead")
          => (err.kind = "NotProvableYet" <=> oracleLatest < WithdrawalBlock) )

\* The check failed with an output below the withdrawal and an interval of
\* 1800 blocks of 2 seconds: the message says every 1h0m0s.
C37_Witness ==
    /\ pc = "done"
    /\ err.kind = "NotProvableYet"
    /\ err.latest = 0
    /\ err.withdrawal = 1
    /\ submissionInterval = 1800
    /\ l2BlockTime = 2
    /\ err.every = [h |-> 1, m |-> 0, s |-> 0]

====
